---- MODULE Spec2Model ----
(***************************************************************************)
(* State-machine model of the agent-manager terminal dashboard:            *)
(*   - TUIEngine.run and its error boundaries      (core/tui_engine.py)    *)
(*   - LayoutManager and the pane components       (ui/components.py)      *)
(*   - FileParser's cached refresh and review-file parsing                 *)
(*                                                 (data/file_parser.py)   *)
(* Each part has its own specification over the shared variables; the      *)
(* variables a specification does not use keep their constructed values.   *)
(***************************************************************************)
EXTENDS Integers, Sequences, FiniteSets, TLC

VARIABLES
    \* ---- TUIEngine (core/tui_engine.py) ----
    state,               \* TUIState
    stdscr,              \* TRUE when self.stdscr holds a window, FALSE when None
    term,                \* the physical terminal: "unacquired" | "acquired" | "released"
    curs_ok,             \* whether the terminal supports curses.curs_set
    terminal_info,       \* NoTerminalInfo (None) or [width, height]
    term_size,           \* what stdscr.getmaxyx() reports now
    resize_pending,
    shutdown_requested,
    error_count,
    exit_code,
    pc,                  \* position inside run()
    loop_exit,           \* how the while loop of run() was left
    last_calls,          \* callbacks invoked by the latest step, in order
    \* ---- LayoutManager and components (ui/components.py) ----
    comp,                \* pane -> [y, x, height, width, scroll_offset, selected_index, is_focused]
    agents,              \* AgentListComponent.agents
    review_items,        \* ReviewQueueComponent.review_items
    current_layout,      \* NoLayout or [total_width, total_height, pane_positions]
    focused_pane,
    ui_op,               \* the latest operation applied to the layout or a component
    ui_input,            \* the list handed to the latest set_agents / set_review_items
    \* ---- FileParser._parse_review_file ----
    review_doc,          \* the decision-queue document, one line kind per line
    parse_done,          \* whether _parse_review_file has returned
    raised_line,         \* the entry whose processing raised in that call, 0 if none
    parsed_items,        \* the list _parse_review_file returned
    \* ---- FileParser.parse_project_state and the files it reads ----
    files,               \* path -> [exists, content, readable]
    mtime_order,         \* the existing status documents, most recently written first
    now,                 \* datetime.now(), in seconds
    cached_data,         \* NoSnapshot or the cached ProjectState
    returned,            \* what the latest parse_project_state call returned
    last_call,           \* how the latest call was decided and what it parsed
    scanned_content,     \* content each tracked file had when cached_data was built
    \* ---- the ProjectState objects and who refers to them ----
    heap,                \* object -> the ProjectState it holds
    cached_ref,          \* the object self.cached_data refers to, NoRef for None
    held_ref,            \* the object a consumer (current_state) refers to
    building_ref,        \* the object a running parse_project_state is filling
    scan_pc,             \* where that call is: "idle" when none is running
    scan_caller,         \* who made that call
    \* ---- the two parsers of a status document ----
    handoff_doc,         \* the status document: [priority, reason, blockers]
    parsed_record,       \* what FileParser._parse_handoff_file made of it
    legacy_record,       \* what AgentStatus.from_handoff_file made of it
    \* ---- AgentManagerApp (agent-manager-v2.py) ----
    status_message,      \* which message the status line shows
    last_action,
    requested,           \* the _execute_human_review_action call of this loop iteration
    status_line,         \* the status message the latest _draw_interface painted
    \* ---- AgentManager (agent-manager.py) ----
    decisions,           \* the files of the decisions directory: [file, decision]
    last_decision,       \* the latest approve_agent_request call and what it returned
    manager,             \* review_items, selected_review, current_pane; the item the latest key acted on
    legacy_queue,        \* the entries of human-review.md, as load_review_queue reads them
    \* ---- TUIEngine.safe_addstr ----
    addstr_call,         \* the latest safe_addstr call, what it returned and wrote
    \* ---- the resize callback ----
    resize_call          \* the arguments of the latest resize_handler call

engineVars == <<state, stdscr, term, curs_ok, terminal_info, term_size,
                resize_pending, shutdown_requested, error_count, exit_code,
                pc, loop_exit, last_calls>>
uiVars == <<comp, agents, review_items, current_layout, focused_pane, ui_op, ui_input>>
reviewVars == <<review_doc, parse_done, raised_line, parsed_items>>
refreshVars == <<files, mtime_order, now, cached_data, returned, last_call, scanned_content>>
handoffVars == <<handoff_doc, parsed_record, legacy_record>>
snapshotVars == <<heap, cached_ref, held_ref, building_ref, scan_pc, scan_caller>>
dataVars == <<reviewVars, refreshVars, handoffVars, snapshotVars>>
legacyVars == <<decisions, last_decision, manager, legacy_queue>>
screenVars == <<addstr_call, resize_call>>
appVars == <<status_message, last_action, requested, status_line, legacyVars, screenVars>>
vars == <<engineVars, uiVars, dataVars, appVars>>

Range(s) == {s[i] : i \in DOMAIN s}

Max(a, b) == IF a >= b THEN a ELSE b
Min(a, b) == IF a <= b THEN a ELSE b

(***************************************************************************)
(* TUIEngine                                                               *)
(***************************************************************************)

\* TUIState (the enum's values)
TUIState == {"initializing", "running", "resizing", "error", "shutting_down"}

\* self.max_errors = 5
max_errors == 5

\* Sizes the terminal takes while the engine runs.
TermSizes == {[width |-> 80, height |-> 24], [width |-> 20, height |-> 5]}

\* self.terminal_info = None, written as a size no detection returns.
NoTerminalInfo == [width |-> 0, height |-> 0]

\* The "minimal safe defaults" of _detect_terminal_capabilities.
DefaultTerminalInfo == [width |-> 80, height |-> 24]

\* What a draw callback attempt can do: return, raise curses.error, raise
\* another Exception, raise KeyboardInterrupt.
DrawOutcomes == {"ok", "curses_error", "exception", "interrupt"}
\* What the retry inside the curses.error branch can do (a bare except).
RetryOutcomes == {"ok", "fail"}
\* getch() returning -1 / raising curses.error, or a key whose handler
\* returns None, returns "quit", raises an Exception or KeyboardInterrupt.
InputOutcomes == {"no_key", "curses_error", "none", "quit", "exception", "interrupt"}
\* What the registered error callback can do: return, raise an Exception,
\* raise a TUIError.
HandlerOutcomes == {"ok", "raise", "raise_tui"}
\* Where _initialize_curses can fail: initscr() itself, a configuration call
\* after initscr(), or nowhere.
InitOutcomes == {"ok", "initscr_fails", "config_fails"}

\* _detect_terminal_capabilities: the size read from the window, or the
\* defaults when the detection raises.
detect_terminal_capabilities_mut(ok) == IF ok THEN terminal_info ELSE DefaultTerminalInfo
detect_terminal_capabilities(ok) == IF ok THEN term_size ELSE DefaultTerminalInfo

\* _cleanup_curses: with a window held, keypad(False); curs_set(1); echo();
\* nocbreak(); endwin(); stdscr = None.  curs_set raises on a terminal without
\* cursor-visibility support; the exception is logged and the remaining calls,
\* endwin() among them, are skipped.  Gives <<stdscr, term>> after the call.
cleanup_curses(scr, t, cursor_supported) ==
    IF scr
    THEN IF cursor_supported THEN <<FALSE, "released">> ELSE <<scr, t>>
    ELSE <<scr, t>>

\* The "Check exit conditions" statement after the loop.
CheckExitConditionsMut(count, code) == IF count > max_errors THEN 1 ELSE code
CheckExitConditions(count, code) == IF count >= max_errors THEN 1 ELSE code

\* The while condition of run().
LoopConditionNoShutdown(shutdown, count) == count < max_errors
LoopConditionMut(shutdown, count) == ~shutdown /\ count <= max_errors
LoopCondition(shutdown, count) == ~shutdown /\ count < max_errors

\* An exception leaves the loop of run() for the handlers of the outer try:
\* TUIError gives exit code 1, any other Exception 2.
EscapeLoop(kind, count, calls) ==
    /\ exit_code' = (IF kind = "raise_tui" THEN 1 ELSE 2)
    /\ error_count' = count
    /\ last_calls' = calls
    /\ loop_exit' = (IF kind = "raise_tui" THEN "tui_fault" ELSE "fault")
    /\ pc' = "finally"

\* An Exception raised by the draw or input callback: the boundary of
\* _safe_draw/_safe_input counts it and calls the error callback (eh1).  If
\* that raises, the except clause of the loop counts again and calls the
\* error callback once more (eh2); if that raises too the exception leaves
\* the loop.  `next` is where run() continues when the boundary held.
CallbackRaised(first, eh1, eh2, next) ==
    IF eh1 = "ok"
    THEN /\ error_count' = error_count + 1
         /\ last_calls' = <<first, "error">>
         /\ pc' = next
         /\ UNCHANGED <<exit_code, loop_exit>>
    ELSE IF eh2 = "ok"
         THEN /\ error_count' = error_count + 2
              /\ last_calls' = <<first, "error", "error">>
              /\ pc' = "loop"
              /\ UNCHANGED <<exit_code, loop_exit>>
         ELSE EscapeLoop(eh2, error_count + 2, <<first, "error", "error">>)

\* run(), up to the loop: install the signal handlers, _initialize_curses,
\* state = RUNNING.  signal.signal raising is an uncaught fault (exit code 2);
\* a failing _initialize_curses cleans up and raises TUIError (exit code 1).
run_start ==
    /\ pc = "start"
    /\ \E sig_ok \in BOOLEAN, o \in InitOutcomes, det_ok \in BOOLEAN :
         IF ~sig_ok
         THEN /\ exit_code' = 2
              /\ loop_exit' = "fault"
              /\ pc' = "finally"
              /\ UNCHANGED <<state, stdscr, term, terminal_info>>
         ELSE IF o = "initscr_fails"
         THEN /\ exit_code' = 1
              /\ loop_exit' = "init_failed"
              /\ pc' = "finally"
              /\ UNCHANGED <<state, stdscr, term, terminal_info>>
         ELSE IF o = "config_fails" \/ ~curs_ok
         THEN \* initscr() succeeded, a later call raised: _cleanup_curses, TUIError
              /\ stdscr' = cleanup_curses(TRUE, "acquired", curs_ok)[1]
              /\ term' = cleanup_curses(TRUE, "acquired", curs_ok)[2]
              /\ exit_code' = 1
              /\ loop_exit' = "init_failed"
              /\ pc' = "finally"
              /\ UNCHANGED <<state, terminal_info>>
         ELSE /\ stdscr' = TRUE
              /\ term' = "acquired"
              /\ terminal_info' = detect_terminal_capabilities(det_ok)
              /\ state' = "running"
              /\ pc' = "loop"
              /\ UNCHANGED <<exit_code, loop_exit>>
    /\ last_calls' = <<>>
    /\ UNCHANGED <<curs_ok, term_size, resize_pending, shutdown_requested, error_count>>
    /\ UNCHANGED <<uiVars, dataVars, appVars>>

\* The while test and, inside the body, the test of resize_pending.
run_loop ==
    /\ pc = "loop"
    /\ IF LoopCondition(shutdown_requested, error_count)
       THEN IF resize_pending
            THEN /\ state' = "resizing"
                 /\ pc' = "resize"
                 /\ UNCHANGED loop_exit
            ELSE /\ pc' = "draw"
                 /\ UNCHANGED <<state, loop_exit>>
       ELSE \* left at the test: by the ceiling when the count has reached it,
            \* by the shutdown request alone otherwise
            /\ pc' = "check"
            /\ loop_exit' = (IF error_count >= max_errors THEN "ceiling" ELSE "shutdown")
            /\ UNCHANGED state
    /\ last_calls' = <<>>
    /\ UNCHANGED <<stdscr, term, curs_ok, terminal_info, term_size, resize_pending,
                   shutdown_requested, error_count, exit_code>>
    /\ UNCHANGED <<uiVars, dataVars, appVars>>

\* What the resize callback can do: return, raise an Exception, raise
\* KeyboardInterrupt.
ResizeOutcomes == {"ok", "exception", "interrupt"}

\* _handle_resize up to the resize callback: clear, resizeterm, recompute
\* terminal_info, call resize_handler(old_info, new_info).  An Exception
\* anywhere is caught; one raised before the recomputation leaves
\* terminal_info as it was.  A KeyboardInterrupt raised by the callback
\* passes the except clause of _handle_resize and breaks the loop.
handle_resize ==
    /\ pc = "resize"
    /\ \E early_fault \in BOOLEAN, det_ok \in BOOLEAN, cb \in ResizeOutcomes :
         IF early_fault
         THEN /\ UNCHANGED <<terminal_info, loop_exit, resize_call>>
              /\ last_calls' = <<>>
              /\ pc' = "resize_done"
         ELSE /\ terminal_info' = detect_terminal_capabilities(det_ok)
              /\ last_calls' = <<"resize">>
              /\ resize_call' = [old |-> terminal_info, new |-> terminal_info']
              /\ IF cb = "interrupt"
                 THEN loop_exit' = "interrupt" /\ pc' = "check"
                 ELSE pc' = "resize_done" /\ UNCHANGED loop_exit
    /\ UNCHANGED <<state, stdscr, term, curs_ok, term_size, resize_pending,
                   shutdown_requested, error_count, exit_code>>
    /\ UNCHANGED <<uiVars, dataVars, status_message, last_action, requested,
                   status_line, legacyVars, addstr_call>>

\* The end of _handle_resize (resize_pending = False on both paths) and the
\* return to RUNNING in run().
handle_resize_done_mut ==
    /\ pc = "resize_done"
    /\ resize_pending' = FALSE
    /\ pc' = "draw"
    /\ last_calls' = <<>>
    /\ UNCHANGED <<state, stdscr, term, curs_ok, terminal_info, term_size,
                   shutdown_requested, error_count, exit_code, loop_exit>>
    /\ UNCHANGED <<uiVars, dataVars, appVars>>
handle_resize_done ==
    /\ pc = "resize_done"
    /\ resize_pending' = FALSE
    /\ state' = "running"
    /\ pc' = "draw"
    /\ last_calls' = <<>>
    /\ UNCHANGED <<stdscr, term, curs_ok, terminal_info, term_size,
                   shutdown_requested, error_count, exit_code, loop_exit>>
    /\ UNCHANGED <<uiVars, dataVars, appVars>>

\* The except curses.error branch of _safe_draw: clear, call the draw
\* callback again; a second failure (bare except) is counted, nothing more.
\* Gives the callbacks invoked by _safe_draw and the new error count.
retry_draw_mut(r, count) ==
    [calls |-> <<"draw", "draw">>, error_count |-> count + 1]
retry_draw(r, count) ==
    [calls |-> <<"draw", "draw">>,
     error_count |-> (IF r = "ok" THEN count ELSE count + 1)]

\* _safe_draw, as called from the loop, when the draw callback does d, the
\* retry r and the error callback eh1, eh2.
safe_draw_outcome(d, r, eh1, eh2) ==
    /\ pc = "draw"
    /\ CASE d = "ok" ->
                /\ last_calls' = <<"draw">>
                /\ pc' = "input"
                /\ UNCHANGED <<error_count, exit_code, loop_exit>>
           [] d = "curses_error" ->
                /\ last_calls' = retry_draw(r, error_count).calls
                /\ error_count' = retry_draw(r, error_count).error_count
                /\ pc' = "input"
                /\ UNCHANGED <<exit_code, loop_exit>>
           [] d = "exception" -> CallbackRaised("draw", eh1, eh2, "input")
           [] d = "interrupt" ->
                \* KeyboardInterrupt passes _safe_draw; the loop breaks
                /\ last_calls' = <<"draw">>
                /\ loop_exit' = "interrupt"
                /\ pc' = "check"
                /\ UNCHANGED <<error_count, exit_code>>
    /\ UNCHANGED <<state, stdscr, term, curs_ok, terminal_info, term_size,
                   resize_pending, shutdown_requested>>
    /\ UNCHANGED <<uiVars, dataVars, appVars>>

\* _safe_draw, as called from the loop.
safe_draw ==
    \E d \in DrawOutcomes, r \in RetryOutcomes,
       eh1 \in HandlerOutcomes, eh2 \in HandlerOutcomes :
        safe_draw_outcome(d, r, eh1, eh2)

\* _safe_input and the quit test that follows it in the loop.
safe_input ==
    /\ pc = "input"
    /\ \E i \in InputOutcomes, eh1 \in HandlerOutcomes, eh2 \in HandlerOutcomes :
         CASE i \in {"no_key", "curses_error"} ->
                /\ last_calls' = <<>>
                /\ pc' = "loop"
                /\ UNCHANGED <<error_count, exit_code, loop_exit>>
           [] i = "none" ->
                /\ last_calls' = <<"input">>
                /\ pc' = "loop"
                /\ UNCHANGED <<error_count, exit_code, loop_exit>>
           [] i = "quit" ->
                /\ last_calls' = <<"input">>
                /\ loop_exit' = "quit"
                /\ pc' = "check"
                /\ UNCHANGED <<error_count, exit_code>>
           [] i = "exception" -> CallbackRaised("input", eh1, eh2, "loop")
           [] i = "interrupt" ->
                /\ last_calls' = <<"input">>
                /\ loop_exit' = "interrupt"
                /\ pc' = "check"
                /\ UNCHANGED <<error_count, exit_code>>
    /\ UNCHANGED <<state, stdscr, term, curs_ok, terminal_info, term_size,
                   resize_pending, shutdown_requested>>
    /\ UNCHANGED <<uiVars, dataVars, appVars>>

\* After the loop: "Check exit conditions".
run_check ==
    /\ pc = "check"
    /\ exit_code' = CheckExitConditions(error_count, exit_code)
    /\ pc' = "finally"
    /\ last_calls' = <<>>
    /\ UNCHANGED <<state, stdscr, term, curs_ok, terminal_info, term_size,
                   resize_pending, shutdown_requested, error_count, loop_exit>>
    /\ UNCHANGED <<uiVars, dataVars, appVars>>

\* The finally clause of run() and the return.
run_finally ==
    /\ pc = "finally"
    /\ state' = "shutting_down"
    /\ stdscr' = cleanup_curses(stdscr, term, curs_ok)[1]
    /\ term' = cleanup_curses(stdscr, term, curs_ok)[2]
    /\ pc' = "returned"
    /\ last_calls' = <<>>
    /\ UNCHANGED <<curs_ok, terminal_info, term_size, resize_pending,
                   shutdown_requested, error_count, exit_code, loop_exit>>
    /\ UNCHANGED <<uiVars, dataVars, appVars>>

\* The signals run() installs _signal_handler for.
Signals == {"SIGWINCH", "SIGINT", "SIGTERM"}

\* _signal_handler: SIGWINCH sets resize_pending, SIGINT/SIGTERM set
\* shutdown_requested.  Delivered at any point between the installation of
\* the handlers and the return of run().
signal_handler_mut(signum) ==
    /\ pc \notin {"start", "returned"}
    /\ IF signum = "SIGWINCH"
       THEN resize_pending' = TRUE /\ UNCHANGED shutdown_requested
       ELSE shutdown_requested' = TRUE /\ resize_pending' = FALSE
    /\ last_calls' = <<>>
    /\ UNCHANGED <<state, stdscr, term, curs_ok, terminal_info,
                   error_count, exit_code, pc, loop_exit>>
    /\ UNCHANGED <<uiVars, dataVars, appVars>>
signal_handler(signum) ==
    /\ pc \notin {"start", "returned"}
    /\ IF signum = "SIGWINCH"
       THEN resize_pending' = TRUE /\ UNCHANGED shutdown_requested
       ELSE shutdown_requested' = TRUE /\ UNCHANGED resize_pending
    /\ last_calls' = <<>>
    /\ UNCHANGED <<state, stdscr, term, curs_ok, terminal_info,
                   error_count, exit_code, pc, loop_exit>>
    /\ UNCHANGED <<uiVars, dataVars, appVars>>

\* The terminal is resized by the user and the OS delivers SIGWINCH.
terminal_resized ==
    /\ \E s \in TermSizes : term_size' = s
    /\ signal_handler("SIGWINCH")

\* The process receives SIGINT or SIGTERM.
terminal_interrupt ==
    /\ \E signum \in {"SIGINT", "SIGTERM"} : signal_handler(signum)
    /\ UNCHANGED term_size

\* The components as their constructors leave them (PaneConfig preferred
\* sizes) and the LayoutManager after create_agent_manager_ui.
Panes == {"agents", "tasks", "review", "details"}
PreferredWidth == [p \in Panes |->
    CASE p = "agents" -> 35 [] p = "tasks" -> 45 [] p = "review" -> 40 [] p = "details" -> 60]
\* LayoutManager.current_layout = None: no layout computed yet.  It is written
\* as a layout of empty rectangles at the origin, which calculate_layout
\* never returns (its panes start below the header).
NoLayout ==
    [total_width |-> 0, total_height |-> 0,
     pane_positions |-> [p \in Panes |-> [y |-> 0, x |-> 0, height |-> 0, width |-> 0]]]
NewComponent(p) ==
    [y |-> 0, x |-> 0, height |-> 15, width |-> PreferredWidth[p],
     scroll_offset |-> 0, selected_index |-> 0, is_focused |-> (p = "agents"),
     selected_agent |-> <<>>]
create_agent_manager_ui ==
    /\ comp = [p \in Panes |-> NewComponent(p)]
    /\ agents = <<>>
    /\ review_items = <<>>
    /\ current_layout = NoLayout
    /\ focused_pane = "agents"
    /\ ui_op = "create"
    /\ ui_input = <<>>

\* TUIEngine.__init__
EngineInit ==
    /\ state = "initializing"
    /\ stdscr = FALSE
    /\ term = "unacquired"
    /\ terminal_info = NoTerminalInfo
    /\ resize_pending = FALSE
    /\ shutdown_requested = FALSE
    /\ error_count = 0
    /\ exit_code = 0
    /\ pc = "start"
    /\ loop_exit = "none"
    /\ last_calls = <<>>

\* No decision-queue document has been handed to the parser.
ReviewIdle ==
    /\ review_doc = <<>>
    /\ parse_done = FALSE
    /\ raised_line = 0
    /\ parsed_items = <<>>

\* The files FileParser looks at: handoff-*.md in the working directory (two
\* status documents that carry the same agent id), the decision queue and the
\* sprint document.
HandoffPaths == {"handoff-1_1.md", "handoff-1_1-b.md", "handoff-2_2.md"}
review_file == "docs/sprints/human-review.md"
sprint_file == "docs/sprints/current-sprint.md"
Paths == HandoffPaths \cup {review_file, sprint_file}
NoFile == [exists |-> FALSE, content |-> 0, readable |-> FALSE, dangling |-> FALSE]

\* cached_data = None, written as a snapshot that no scan produces (its
\* last_refresh lies before the clock starts).
EmptyMap == [x \in {} |-> 0]
NoSnapshot ==
    [agents |-> EmptyMap, review_items |-> <<>>, last_refresh |-> -1,
     sprint_info |-> EmptyMap, file_hashes |-> EmptyMap]
NoCall == [reason |-> "none", force |-> FALSE, parsed |-> {}, errors |-> 0]

\* FileParser.__init__ in an empty working directory.
RefreshIdle ==
    /\ files = [p \in Paths |-> NoFile]
    /\ mtime_order = <<>>
    /\ now = 0
    /\ cached_data = NoSnapshot
    /\ returned = NoSnapshot
    /\ last_call = NoCall
    /\ scanned_content = EmptyMap

\* No status document has been parsed on its own.
NoRecord == [status |-> "none", priority |-> "none", blockers |-> 0]
HandoffIdle ==
    /\ handoff_doc = [priority |-> "absent", reason |-> "absent", blockers |-> "absent"]
    /\ parsed_record = NoRecord
    /\ legacy_record = NoRecord

\* AgentManager.__init__: os.makedirs(".decisions"), an empty directory, and
\* no decision taken.
NoDecision == [agent_id |-> "none", decision |-> "none", command |-> "none", returns |-> FALSE]
\* AgentManager.__init__: no review item loaded, first entry selected, the
\* agents pane active.  Review items are written as the agent ids they carry.
NewManager ==
    [review_items |-> <<>>, selected_review |-> 0, current_pane |-> 0, acted |-> <<>>]
LegacyIdle ==
    /\ decisions = {}
    /\ last_decision = NoDecision
    /\ manager = NewManager
    /\ legacy_queue = <<>>

\* safe_addstr has not been called.
NoAddstr ==
    [called |-> FALSE, y |-> 0, x |-> 0, text |-> <<>>, max_width |-> <<>>,
     returns |-> FALSE, written |-> <<>>]
\* The resize callback has not been called.
NoResizeCall == [old |-> NoTerminalInfo, new |-> NoTerminalInfo]
ScreenIdle == addstr_call = NoAddstr /\ resize_call = NoResizeCall

\* AgentManagerApp.__init__: no key handled, no review action executed.
NoRequest == [action |-> "none", agent_id |-> 0, outcome |-> "none"]
AppIdle ==
    /\ status_message = "ready"
    /\ last_action = "startup"
    /\ requested = NoRequest
    /\ status_line = "none"
    /\ LegacyIdle
    /\ ScreenIdle

\* The ProjectState objects alive at one time: the cached one, the one a
\* consumer still holds and the one being built.
MaxObjects == 3
Slots == 1..MaxObjects
\* None, as a reference.
NoRef == 0

\* No ProjectState has been built.
SnapshotIdle ==
    /\ heap = [s \in Slots |-> NoSnapshot]
    /\ cached_ref = NoRef
    /\ held_ref = NoRef
    /\ building_ref = NoRef
    /\ scan_pc = "idle"
    /\ scan_caller = "none"

\* The data layer as constructed and never called.
DataIdle == ReviewIdle /\ RefreshIdle /\ HandoffIdle /\ SnapshotIdle

Init ==
    /\ EngineInit
    /\ AppIdle
    /\ DataIdle
    /\ curs_ok \in BOOLEAN
    /\ term_size \in TermSizes
    /\ create_agent_manager_ui

Next ==
    \/ run_start
    \/ run_loop
    \/ handle_resize
    \/ handle_resize_done
    \/ safe_draw
    \/ safe_input
    \/ run_check
    \/ run_finally
    \/ terminal_resized
    \/ terminal_interrupt

Spec == Init /\ [][Next]_vars

(***************************************************************************)
(* Properties of TUIEngine.run                                             *)
(***************************************************************************)

\* C1: when run() returns, a terminal that was acquired has been released
\* (endwin was reached) and the engine state is SHUTTING_DOWN.
C1_ReleasedOnEveryExit ==
    pc = "returned" =>
        /\ (term # "unacquired" => term = "released")
        /\ state = "shutting_down"

\* C2 as stated: run() returns 0 whenever the loop ended by a quit action or a
\* shutdown signal, 1 after a failed initialization or the error ceiling, 2
\* when an uncaught fault left the loop.
C2_ExitCodesAsStated ==
    pc = "returned" =>
        /\ (loop_exit \in {"quit", "shutdown"} => exit_code = 0)
        /\ (loop_exit \in {"init_failed", "ceiling"} => exit_code = 1)
        /\ (loop_exit = "fault" => exit_code = 2)

\* C2 amended: a shutdown signal gives 0; a quit action (or a keyboard
\* interrupt) gives 0 only while the error count is below the ceiling, and 1
\* when the count has reached it in the same iteration; a failed
\* initialization and the ceiling give 1; an uncaught fault that leaves the
\* loop gives 2, except a TUIError, which gives 1.
C2_ExitCodes ==
    pc = "returned" =>
        /\ (loop_exit = "shutdown" => exit_code = 0)
        /\ (loop_exit \in {"quit", "interrupt"} =>
               exit_code = (IF error_count >= 5 THEN 1 ELSE 0))
        /\ (loop_exit \in {"init_failed", "ceiling", "tui_fault"} => exit_code = 1)
        /\ (loop_exit = "fault" => exit_code = 2)

\* C2 witness: run() has returned 0 after a quit action.
C2_Witness == pc = "returned" /\ loop_exit = "quit" /\ exit_code = 0

\* C3 as stated: once the error count has reached the ceiling of 5, no step
\* invokes the draw or the input callback any more.
C3_NoCallbackAfterCeilingAsStated ==
    [][error_count >= 5 =>
         /\ "draw" \notin Range(last_calls')
         /\ "input" \notin Range(last_calls')]_vars

\* C3 amended: the loop is left at its test only when a shutdown was
\* requested or the error count has reached 5, and goes on otherwise; once
\* the count has reached 5 no draw callback is invoked any more (the input
\* dispatch of the iteration whose draw reached the ceiling still runs); and
\* run() returns a non-zero status whenever the count has reached 5.
C3_LoopUntilCeiling ==
    [][/\ (pc = "loop" /\ pc' = "check" => shutdown_requested \/ error_count >= 5)
       /\ (pc = "loop" /\ ~shutdown_requested /\ error_count < 5
              => pc' \in {"loop", "draw", "resize"})
       /\ (error_count >= 5 => "draw" \notin Range(last_calls'))
       /\ (pc' = "returned" /\ error_count' >= 5 => exit_code' # 0)]_vars

\* C3 witness: run() has returned 1 after the loop ended at the ceiling.
C3_Witness ==
    pc = "returned" /\ loop_exit = "ceiling" /\ error_count >= 5 /\ exit_code = 1

(***************************************************************************)
(* LayoutManager and the pane components                                   *)
(***************************************************************************)

\* Terminal sizes handed to update_layout.
MaxLayoutWidth == 30
MaxLayoutHeight == 16
\* Bounds of the list components' inputs.
MaxAgents == 5
MaxItems == 5
MaxDelta == 2
MaxListHeight == 15

\* calculate_layout: header_height = 3, footer_height = 3
header_height == 3
footer_height == 3

\* PaneConfig.min_height (default) and the min_width each component passes.
min_height == 5
MinWidth == [p \in Panes |->
    CASE p = "agents" -> 25 [] p = "tasks" -> 30 [] p = "review" -> 25 [] p = "details" -> 40]

\* LayoutManager.calculate_layout; // is floor division, as \div is.
calculate_layout_mut(terminal_width, terminal_height) ==
    LET available_height == terminal_height - header_height - footer_height
        available_width == terminal_width
        top_pane_height == (available_height * 2) \div 3
        details_height == available_height - top_pane_height
        pane_width == available_width \div 3
    IN  [total_width |-> terminal_width,
         total_height |-> terminal_height,
         pane_positions |-> [p \in Panes |->
            CASE p = "agents" ->
                   [y |-> header_height, x |-> 0,
                    height |-> top_pane_height, width |-> pane_width]
              [] p = "tasks" ->
                   [y |-> header_height, x |-> pane_width,
                    height |-> top_pane_height, width |-> pane_width]
              [] p = "review" ->
                   [y |-> header_height, x |-> pane_width * 2,
                    height |-> top_pane_height,
                    width |-> available_width - pane_width * 2]
              [] p = "details" ->
                   [y |-> header_height + top_pane_height, x |-> 0,
                    height |-> details_height + 1, width |-> available_width]]]
calculate_layout(terminal_width, terminal_height) ==
    LET available_height == terminal_height - header_height - footer_height
        available_width == terminal_width
        top_pane_height == (available_height * 2) \div 3
        details_height == available_height - top_pane_height
        pane_width == available_width \div 3
    IN  [total_width |-> terminal_width,
         total_height |-> terminal_height,
         pane_positions |-> [p \in Panes |->
            CASE p = "agents" ->
                   [y |-> header_height, x |-> 0,
                    height |-> top_pane_height, width |-> pane_width]
              [] p = "tasks" ->
                   [y |-> header_height, x |-> pane_width,
                    height |-> top_pane_height, width |-> pane_width]
              [] p = "review" ->
                   [y |-> header_height, x |-> pane_width * 2,
                    height |-> top_pane_height,
                    width |-> available_width - pane_width * 2]
              [] p = "details" ->
                   [y |-> header_height + top_pane_height, x |-> 0,
                    height |-> details_height, width |-> available_width]]]

\* UIComponent.set_dimensions on the component c of pane p.
set_dimensions_mut(c, p, y, x, height, width) ==
    [c EXCEPT !.y = c.y + y, !.x = x,
              !.height = Max(height, min_height),
              !.width = Max(width, MinWidth[p])]
set_dimensions(c, p, y, x, height, width) ==
    [c EXCEPT !.y = y, !.x = x,
              !.height = Max(height, min_height),
              !.width = Max(width, MinWidth[p])]

\* The components after LayoutManager.update_layout: every registered
\* component takes its pane's position.
LayoutApplied(cs, layout) ==
    [p \in Panes |->
        LET pos == layout.pane_positions[p]
        IN  set_dimensions(cs[p], p, pos.y, pos.x, pos.height, pos.width)]

\* LayoutManager.update_layout
update_layout(terminal_width, terminal_height) ==
    /\ current_layout' = calculate_layout(terminal_width, terminal_height)
    /\ comp' = LayoutApplied(comp, current_layout')
    /\ ui_op' = (IF /\ current_layout # NoLayout
                    /\ current_layout.total_width = terminal_width
                    /\ current_layout.total_height = terminal_height
                 THEN "update_layout_again" ELSE "update_layout")
    /\ ui_input' = <<>>
    /\ UNCHANGED <<agents, review_items, focused_pane>>

\* len(get_content_lines()) of a list component: one line per entry, and the
\* single placeholder line ("No agents found" / "No review items") when the
\* list is empty.
ContentLength(entries) == IF Len(entries) = 0 THEN 1 ELSE Len(entries)

\* AgentListComponent.move_selection / ReviewQueueComponent.move_selection
\* (the two bodies are the same) on component c holding n entries.
move_selection_mut(c, n, delta) ==
    IF n > 0
    THEN LET sel == Max(0, Min(n - 1, c.selected_index + delta))
             visible_height == c.height - 2
         IN  [c EXCEPT !.selected_index = sel,
                       !.scroll_offset =
                          IF sel < c.scroll_offset THEN sel
                          ELSE IF sel >= c.scroll_offset + visible_height
                               THEN sel - visible_height
                               ELSE c.scroll_offset]
    ELSE c
move_selection(c, n, delta) ==
    IF n > 0
    THEN LET sel == Max(0, Min(n - 1, c.selected_index + delta))
             visible_height == c.height - 2
         IN  [c EXCEPT !.selected_index = sel,
                       !.scroll_offset =
                          IF sel < c.scroll_offset THEN sel
                          ELSE IF sel >= c.scroll_offset + visible_height
                               THEN sel - visible_height + 1
                               ELSE c.scroll_offset]
    ELSE c

\* The selected_index both set_agents and set_review_items leave.
ClampSelection(c, n) ==
    [c EXCEPT !.selected_index = IF n > 0 THEN Min(c.selected_index, n - 1) ELSE 0]

\* priority_order of set_review_items; an unknown priority sorts last.
Priorities == <<"critical", "high", "medium">>
priority_order(p) ==
    CASE p = "critical" -> 0 [] p = "high" -> 1 [] p = "medium" -> 2 [] OTHER -> 3

\* sorted(items, key=priority_order): a stable sort.
SortedByPriorityMut(items) ==
    LET pick(k) == SelectSeq(items, LAMBDA it : priority_order(it.priority) = k)
    IN  pick(1) \o pick(0) \o pick(2) \o pick(3)
SortedByPriority(items) ==
    LET pick(k) == SelectSeq(items, LAMBDA it : priority_order(it.priority) = k)
    IN  pick(0) \o pick(1) \o pick(2) \o pick(3)

\* The agent lists and review-item lists the components are given.
AgentLists == {[i \in 1..n |-> i] : n \in 0..MaxAgents}
ReviewLists ==
    {[i \in 1..n |-> [agent_id |-> i, priority |-> Priorities[((i + k) % 3) + 1]]] :
        n \in 0..MaxItems, k \in 0..2}
Deltas == (0 - MaxDelta)..MaxDelta
ListSizes == {[width |-> 80, height |-> h] : h \in 14..MaxListHeight}

\* AgentListComponent.set_agents
set_agents(new_agents) ==
    /\ agents' = new_agents
    /\ comp' = [comp EXCEPT !["agents"] = ClampSelection(@, Len(new_agents))]
    /\ ui_op' = "set_agents"
    /\ ui_input' = new_agents
    /\ UNCHANGED <<review_items, current_layout, focused_pane>>

\* ReviewQueueComponent.set_review_items
set_review_items(items) ==
    /\ review_items' = SortedByPriority(items)
    /\ comp' = [comp EXCEPT !["review"] = ClampSelection(@, Len(items))]
    /\ ui_op' = "set_review_items"
    /\ ui_input' = items
    /\ UNCHANGED <<agents, current_layout, focused_pane>>

\* move_selection called on the agent list.
agents_move_selection(delta) ==
    /\ comp' = [comp EXCEPT !["agents"] = move_selection(@, Len(agents), delta)]
    /\ ui_op' = "move_selection"
    /\ ui_input' = <<>>
    /\ UNCHANGED <<agents, review_items, current_layout, focused_pane>>

\* move_selection called on the review queue.
review_move_selection(delta) ==
    /\ comp' = [comp EXCEPT !["review"] = move_selection(@, Len(review_items), delta)]
    /\ ui_op' = "move_selection"
    /\ ui_input' = <<>>
    /\ UNCHANGED <<agents, review_items, current_layout, focused_pane>>

\* The engine as constructed and never run: the specifications of the
\* layout and the components leave it alone.
EngineIdle ==
    /\ EngineInit
    /\ curs_ok = TRUE
    /\ term_size = DefaultTerminalInfo

\* ---- layout computation alone ----
LayoutInit == EngineIdle /\ AppIdle /\ DataIdle /\ create_agent_manager_ui
LayoutNext ==
    \E w \in 1..MaxLayoutWidth, h \in 1..MaxLayoutHeight :
        update_layout(w, h) /\ UNCHANGED <<engineVars, appVars, dataVars>>
SpecLayout == LayoutInit /\ [][LayoutNext]_vars

\* ---- move_selection on list components with fixed content and geometry ----
ListInit ==
    /\ EngineIdle
    /\ AppIdle
    /\ DataIdle
    /\ \E as \in AgentLists, items \in ReviewLists, size \in ListSizes :
         /\ agents = as
         /\ review_items = SortedByPriority(items)
         /\ current_layout = calculate_layout(size.width, size.height)
         /\ comp = LayoutApplied([p \in Panes |-> NewComponent(p)], current_layout)
    /\ focused_pane = "agents"
    /\ ui_op = "update_layout"
    /\ ui_input = <<>>
ListNext ==
    \/ \E delta \in Deltas : agents_move_selection(delta) /\ UNCHANGED <<engineVars, appVars, dataVars>>
    \/ \E delta \in Deltas : review_move_selection(delta) /\ UNCHANGED <<engineVars, appVars, dataVars>>
SpecList == ListInit /\ [][ListNext]_vars

\* ---- list components under content replacement, selection and layout ----
PanesInit == EngineIdle /\ AppIdle /\ DataIdle /\ create_agent_manager_ui
PanesNext ==
    \/ \E as \in AgentLists : set_agents(as) /\ UNCHANGED <<engineVars, appVars, dataVars>>
    \/ \E items \in ReviewLists : set_review_items(items) /\ UNCHANGED <<engineVars, appVars, dataVars>>
    \/ \E delta \in {-1, 1} : agents_move_selection(delta) /\ UNCHANGED <<engineVars, appVars, dataVars>>
    \/ \E delta \in {-1, 1} : review_move_selection(delta) /\ UNCHANGED <<engineVars, appVars, dataVars>>
    \/ \E size \in ListSizes :
          update_layout(size.width, size.height) /\ UNCHANGED <<engineVars, appVars, dataVars>>
SpecPanes == PanesInit /\ [][PanesNext]_vars

(***************************************************************************)
(* Properties of the layout and the list components                        *)
(***************************************************************************)

\* The four pane rectangles of a layout.
Rect(p) == current_layout.pane_positions[p]
Overlap(a, b) ==
    /\ a.x < b.x + b.width /\ b.x < a.x + a.width
    /\ a.y < b.y + b.height /\ b.y < a.y + a.height
WellTiled ==
    /\ \A p \in Panes :
         /\ Rect(p).height >= 0 /\ Rect(p).width >= 0
         /\ Rect(p).x >= 0
         /\ Rect(p).x + Rect(p).width <= current_layout.total_width
         /\ Rect(p).y >= 3
         /\ Rect(p).y + Rect(p).height <= current_layout.total_height - 3
    /\ \A p, q \in Panes : p # q => ~Overlap(Rect(p), Rect(q))

\* C4 as stated: for every terminal of at least 20 columns and 5 rows the four
\* pane rectangles have non-negative sizes, lie between the 3-row header and
\* the 3-row footer inside the terminal, and do not overlap pairwise.
C4_LayoutTilesAsStated ==
    (/\ current_layout # NoLayout
     /\ current_layout.total_width >= 20
     /\ current_layout.total_height >= 5) => WellTiled

\* C4 amended: the same for every terminal of at least 20 columns and 6 rows
\* (with 5 rows the space left by header and footer is negative).
C4_LayoutTiles ==
    (/\ current_layout # NoLayout
     /\ current_layout.total_width >= 20
     /\ current_layout.total_height >= 6) => WellTiled

\* C4 witness: a layout was computed for a terminal of 20 columns and at
\* least 6 rows in which every pane has rows and the review pane takes the
\* columns left over by the division by three.
C4_Witness ==
    /\ ui_op = "update_layout"
    /\ current_layout.total_width = 20
    /\ current_layout.total_height >= 6
    /\ \A p \in Panes : Rect(p).height > 0
    /\ Rect("review").width > Rect("agents").width

\* C5: update_layout called with the dimensions of the call before it leaves
\* every pane rectangle and every component geometry as that call left them.
C5_UpdateLayoutIdempotent ==
    [][(/\ current_layout # NoLayout
        /\ current_layout'.total_width = current_layout.total_width
        /\ current_layout'.total_height = current_layout.total_height)
       => (current_layout' = current_layout /\ comp' = comp)]_vars

\* C5 witness: update_layout has run twice in a row with the same dimensions,
\* those of a terminal of at least 20 columns and 6 rows.
C5_Witness ==
    /\ ui_op = "update_layout_again"
    /\ current_layout.total_width >= 20
    /\ current_layout.total_height >= 6

\* The selection and scroll bounds of the list pane p holding `entries`.
SelectionInBounds(p, entries) ==
    /\ 0 <= comp[p].selected_index
    /\ comp[p].selected_index <= ContentLength(entries) - 1
ScrollInBounds(p, entries) ==
    /\ 0 <= comp[p].scroll_offset
    /\ comp[p].scroll_offset <= Max(0, ContentLength(entries) - (comp[p].height - 2))
SelectionVisible(p) ==
    /\ comp[p].scroll_offset <= comp[p].selected_index
    /\ comp[p].selected_index < comp[p].scroll_offset + (comp[p].height - 2)

\* C6: under any sequence of move_selection calls on the agent list and the
\* review queue with fixed content and geometry, selected_index stays in
\* [0, length - 1], scroll_offset in [0, max(0, length - visibleHeight)] and
\* the selection inside [scroll_offset, scroll_offset + visibleHeight), with
\* visibleHeight = height - 2 and length the number of content lines (an
\* empty list shows one placeholder line, on which index 0 stays).
C6_MoveSelectionBounds ==
    /\ SelectionInBounds("agents", agents) /\ SelectionInBounds("review", review_items)
    /\ ScrollInBounds("agents", agents) /\ ScrollInBounds("review", review_items)
    /\ SelectionVisible("agents") /\ SelectionVisible("review")

\* C6 witness: both lists have been scrolled by moving the selection down.
C6_Witness ==
    /\ ui_op = "move_selection"
    /\ comp["agents"].scroll_offset > 0
    /\ comp["review"].scroll_offset > 0
    /\ comp["agents"].selected_index = Len(agents) - 1

\* C7: in every reachable state of a list component, under content
\* replacement, move_selection and layout recomputation, the selection is
\* inside the content and scroll_offset is in [0, max(0, contentLength -
\* visibleHeight)].
C7_ListInvariant ==
    /\ SelectionInBounds("agents", agents) /\ SelectionInBounds("review", review_items)
    /\ ScrollInBounds("agents", agents) /\ ScrollInBounds("review", review_items)

(***************************************************************************)
(* FileParser: the decision-queue document                                 *)
(***************************************************************************)

\* A document is a sequence of lines, each of one kind:
\*   critical, high, medium   a heading holding that section's marker
\*   stats                    a heading holding the marker of the statistics
\*   entry                    "- **[agent]** - description"
\*   empty_entry              "- **[agent]** - " with nothing after it
\*   field                    an indented sub-field line, "  - **Type**: ..."
\* and ends with a newline.
LineKinds == {"critical", "high", "medium", "stats", "entry", "empty_entry", "field"}
MaxLines == 5
ReviewDocs == UNION {[1..n -> LineKinds] : n \in 0..MaxLines}

\* content.find(marker, start): the first line at or after `start` that holds
\* the marker, 0 when there is none.
FindMarker(doc, marker, start) ==
    LET hits == {i \in start..Len(doc) : doc[i] = marker}
    IN  IF hits = {} THEN 0 ELSE CHOOSE i \in hits : \A j \in hits : i <= j

\* The lines at which the lookahead of item_pattern ends a description block:
\* "\n  -" and "\n- \*\*" (there is no empty line among the line kinds).
EndsBlock(kind) == kind \in {"entry", "empty_entry", "field"}

\* The last line a match that has consumed line i extends to: the block grows
\* over the following lines until one that ends it, or the end of the section.
RECURSIVE BlockEnd(_, _, _)
BlockEnd(doc, i, hi) ==
    IF i >= hi \/ EndsBlock(doc[i + 1]) THEN i ELSE BlockEnd(doc, i + 1, hi)

\* _parse_review_section over the lines lo..hi of the document: re.finditer
\* with item_pattern, one item per match; the match whose processing raises
\* is skipped by the except clause.  An entry with a description matches on
\* its own line.  An entry without one matches too, because (.+?) takes the
\* newline and goes on into the next line, which is consumed whatever it is.
RECURSIVE parse_review_section(_, _, _, _, _)
parse_review_section(doc, lo, hi, priority, raises) ==
    IF lo > hi THEN <<>>
    ELSE LET item == IF raises = lo THEN <<>>
                     ELSE <<[agent_id |-> lo, priority |-> priority]>>
         IN  CASE doc[lo] = "entry" ->
                    item \o parse_review_section(doc, BlockEnd(doc, lo, hi) + 1,
                                                 hi, priority, raises)
               [] doc[lo] = "empty_entry" ->
                    item \o parse_review_section(doc,
                                IF lo = hi THEN hi + 1
                                ELSE BlockEnd(doc, lo + 1, hi) + 1,
                                hi, priority, raises)
               [] OTHER -> parse_review_section(doc, lo + 1, hi, priority, raises)

\* sections of _parse_review_file: start marker and end marker per priority.
start_marker == [critical |-> "critical", high |-> "high", medium |-> "medium"]
end_marker == [critical |-> "high", high |-> "medium", medium |-> "stats"]

\* The slice _parse_review_file cuts for one priority, as <<first, last>> line
\* after the start marker; <<1, 0>> when the start marker is absent.  Without
\* an end marker after the start the slice runs to the end of the content.
section_content(doc, priority) ==
    LET start_idx == FindMarker(doc, start_marker[priority], 1)
        end_idx == IF start_idx = 0 THEN 0
                   ELSE FindMarker(doc, end_marker[priority], start_idx)
    IN  IF start_idx = 0 THEN <<1, 0>>
        ELSE IF end_idx # 0 THEN <<start_idx + 1, end_idx - 1>>
        ELSE <<start_idx + 1, Len(doc)>>

\* The items of one priority.
SectionItems(doc, priority, raises) ==
    LET slice == section_content(doc, priority)
    IN  parse_review_section(doc, slice[1], slice[2], priority, raises)

\* FileParser._parse_review_file on a readable document.
parse_review_file(doc, raises) ==
    SectionItems(doc, "critical", raises)
        \o SectionItems(doc, "high", raises)
        \o SectionItems(doc, "medium", raises)

\* The lines of a document that are entries.
EntryLines(doc) == {i \in 1..Len(doc) : doc[i] \in {"entry", "empty_entry"}}

\* One call of _parse_review_file; processing of at most one entry raises.
ParseReviewFile ==
    /\ ~parse_done
    /\ \E raises \in {0} \cup EntryLines(review_doc) :
         /\ raised_line' = raises
         /\ parsed_items' = parse_review_file(review_doc, raises)
    /\ parse_done' = TRUE
    /\ UNCHANGED <<review_doc, engineVars, appVars, uiVars, refreshVars, handoffVars, snapshotVars>>

ReviewInit ==
    /\ EngineIdle
    /\ AppIdle
    /\ RefreshIdle
    /\ HandoffIdle
    /\ SnapshotIdle
    /\ create_agent_manager_ui
    /\ review_doc \in ReviewDocs
    /\ parse_done = FALSE
    /\ raised_line = 0
    /\ parsed_items = <<>>
ReviewNext == ParseReviewFile
SpecReview == ReviewInit /\ [][ReviewNext]_vars

(***************************************************************************)
(* Properties of the decision-queue parser                                 *)
(***************************************************************************)

\* The section a line of the document lies in: the priority of the nearest
\* heading above it ("none" before the first heading and after the
\* statistics heading).
RECURSIVE SectionOf(_, _)
SectionOf(doc, i) ==
    IF i = 0 THEN "none"
    ELSE CASE doc[i] \in {"critical", "high", "medium"} -> doc[i]
           [] doc[i] = "stats" -> "none"
           [] OTHER -> SectionOf(doc, i - 1)

\* The entries of one section of the document.
EntriesIn(doc, priority) ==
    {i \in 1..Len(doc) : doc[i] = "entry" /\ SectionOf(doc, i) = priority}

\* Each heading occurs at most once.
HeadingsUnique(doc) ==
    \A i, j \in 1..Len(doc) :
        (doc[i] = doc[j] /\ doc[i] \in {"critical", "high", "medium", "stats"}) => i = j

\* C10: a document with N entries in its critical section, M in its high
\* section and K in its medium section, every entry complete and none failing,
\* parses to exactly N + M + K items, one per entry, each tagged with the
\* priority of its section; and when one entry fails, the items of the other
\* sections are still all there.
C10_ItemsPerSection ==
    (/\ parse_done
     /\ HeadingsUnique(review_doc)
     /\ \A i \in 1..Len(review_doc) : review_doc[i] # "empty_entry")
    => /\ raised_line = 0 =>
            /\ Len(parsed_items) =
                  Cardinality(EntriesIn(review_doc, "critical"))
                + Cardinality(EntriesIn(review_doc, "high"))
                + Cardinality(EntriesIn(review_doc, "medium"))
            /\ \A k \in 1..Len(parsed_items) :
                  parsed_items[k].agent_id \in
                      EntriesIn(review_doc, parsed_items[k].priority)
       /\ \A pr \in {"critical", "high", "medium"} :
            (raised_line = 0 \/ SectionOf(review_doc, raised_line) # pr) =>
                \A i \in EntriesIn(review_doc, pr) :
                    \E k \in 1..Len(parsed_items) :
                        parsed_items[k] = [agent_id |-> i, priority |-> pr]

(***************************************************************************)
(* The status document and its two parsers                                 *)
(***************************************************************************)

\* What the parsers look for in a status document:
\*   priority  the word after "**Priority**:", lower-cased, or "absent"
\*   reason    the word after "**Handoff Reason**:", lower-cased, or "absent"
\*   blockers  the "## Blockers" section: "absent"; "empty" (nothing but
\*             blank lines under the heading); "prose" (text lines, none
\*             starting with - or *); "bullets" (a line starting with - or *)
PriorityWords == {"absent", "critical", "high", "medium"}
ReasonWords == {"absent", "blocked", "blocking", "completed", "done", "finished", "in_progress"}
BlockerSections == {"absent", "empty", "prose", "bullets"}
HandoffDocs == [priority : PriorityWords, reason : ReasonWords, blockers : BlockerSections]

\* FileParser._parse_handoff_file, lines 209-234: priority, status from the
\* handoff reason, then the blockers list and the status it forces.
handoff_blockers(doc) == IF doc.blockers = "bullets" THEN 1 ELSE 0
handoff_status(doc) ==
    LET from_reason ==
            IF doc.reason = "absent" THEN "unknown"
            ELSE IF doc.reason \in {"blocked", "blocking"} THEN "blocked"
            ELSE IF doc.reason \in {"completed", "done", "finished"} THEN "completed"
            ELSE "active"
    IN  IF doc.blockers # "absent" /\ handoff_blockers(doc) > 0
        THEN "blocked" ELSE from_reason
parse_handoff_fields(doc) ==
    [status |-> handoff_status(doc),
     priority |-> IF doc.priority = "absent" THEN "medium" ELSE doc.priority,
     blockers |-> handoff_blockers(doc)]

\* AgentStatus.from_handoff_file, lines 53-62: status from the priority, then
\* blocked when the blockers heading is there; every non-blank line of the
\* section is a blocker.  AgentStatus has no priority attribute.
from_handoff_file(doc) ==
    LET from_priority ==
            IF doc.priority = "absent" THEN "unknown"
            ELSE IF doc.priority = "critical" THEN "blocked" ELSE "active"
    IN  [status |-> IF doc.blockers # "absent" THEN "blocked" ELSE from_priority,
         priority |-> "none",
         blockers |-> IF doc.blockers \in {"prose", "bullets"} THEN 1 ELSE 0]

\* The document of each content version of the files of SpecRefresh.
HandoffDocOf(c) ==
    IF c = 1 THEN [priority |-> "absent", reason |-> "absent", blockers |-> "absent"]
    ELSE [priority |-> "critical", reason |-> "in_progress", blockers |-> "absent"]

\* One call of each parser on the document.
ParseHandoffFile ==
    /\ parsed_record = NoRecord
    /\ parsed_record' = parse_handoff_fields(handoff_doc)
    /\ UNCHANGED <<handoff_doc, legacy_record>>
    /\ UNCHANGED <<engineVars, appVars, uiVars, reviewVars, refreshVars, snapshotVars>>
FromHandoffFile ==
    /\ legacy_record = NoRecord
    /\ legacy_record' = from_handoff_file(handoff_doc)
    /\ UNCHANGED <<handoff_doc, parsed_record>>
    /\ UNCHANGED <<engineVars, appVars, uiVars, reviewVars, refreshVars, snapshotVars>>

HandoffInit ==
    /\ EngineIdle /\ AppIdle /\ create_agent_manager_ui /\ ReviewIdle /\ RefreshIdle
    /\ SnapshotIdle
    /\ handoff_doc \in HandoffDocs
    /\ parsed_record = NoRecord
    /\ legacy_record = NoRecord
HandoffNext == ParseHandoffFile \/ FromHandoffFile
SpecHandoff == HandoffInit /\ [][HandoffNext]_vars

\* C12: a status document with a blockers section yields status blocked from
\* both parsers, whatever its priority, its handoff reason and the content of
\* the section.
C12_BlockersForceBlocked ==
    handoff_doc.blockers # "absent" =>
        /\ parsed_record # NoRecord => parsed_record.status = "blocked"
        /\ legacy_record # NoRecord => legacy_record.status = "blocked"

\* C13: a status document with Priority: critical and no blockers section
\* (and no handoff reason that says blocked or completed) yields status
\* active from both parsers.
C13_CriticalStaysActive ==
    (/\ handoff_doc.priority = "critical"
     /\ handoff_doc.blockers = "absent"
     /\ handoff_doc.reason \in {"absent", "in_progress"}) =>
        /\ parsed_record # NoRecord => parsed_record.status = "active"
        /\ legacy_record # NoRecord => legacy_record.status = "active"

(***************************************************************************)
(* FileParser.parse_project_state: cache and re-scan                       *)
(***************************************************************************)

\* File contents are versions 1..MaxContent of a document.
MaxContent == 2
\* The clock stops at MaxTime seconds.
MaxTime == 60
\* self.cache_timeout = timedelta(seconds=30)
cache_timeout == 30

\* _extract_agent_from_filename: "handoff-<digits>_<digits>" of the name.
extract_agent_from_filename ==
    [p \in HandoffPaths |-> IF p = "handoff-2_2.md" THEN "handoff-2_2" ELSE "handoff-1_1"]

\* md5 of the bytes: one digest per content, none equal to the empty string.
md5(content) == "md5:" \o ToString(content)

\* _calculate_file_hash: the digest, "" when the file cannot be opened.
calculate_file_hash(fs, p) ==
    IF fs[p].exists /\ fs[p].readable THEN md5(fs[p].content) ELSE ""

\* _has_file_changed
has_file_changed_mut(fs, p, cached_hash) == FALSE
has_file_changed(fs, p, cached_hash) == calculate_file_hash(fs, p) # cached_hash

\* The age test of _should_refresh_cache.
CacheExpiredMut(t, last_refresh) == t - last_refresh >= cache_timeout
CacheExpired(t, last_refresh) == t - last_refresh > cache_timeout

\* The outcome of parse_project_state's test, in the order the code tests:
\* force_refresh, no cache, age, tracked files; "fresh" is the cache hit.
RefreshReason(force, cache, fs, t) ==
    IF force THEN "force"
    ELSE IF cache = NoSnapshot THEN "no_cache"
    ELSE IF CacheExpired(t, cache.last_refresh) THEN "expired"
    ELSE IF \E p \in DOMAIN cache.file_hashes :
                fs[p].exists /\ has_file_changed(fs, p, cache.file_hashes[p])
         THEN "changed"
    ELSE "fresh"

\* _parse_handoff_file on a readable status document; the fields taken from
\* the text are stood for by the content version they were taken from.
\* Version 1 is a document with neither a Handoff Reason nor blockers, the
\* others give a reason that is neither a blocked nor a completed word.
parse_handoff_file(fs, p) ==
    [agent_id |-> extract_agent_from_filename[p],
     handoff_file |-> p,
     doc |-> fs[p].content,
     status |-> handoff_status(HandoffDocOf(fs[p].content)),
     current_task |-> "from_doc",
     files_owned |-> 0]

\* The status documents whose record a scan keeps: readable, and no more
\* recently written readable document carries the same agent id.
KeptHandoffsMut(fs, order) ==
    {order[i] : i \in {k \in 1..Len(order) :
        /\ fs[order[k]].readable
        /\ \A j \in (k + 1)..Len(order) :
              ~(/\ fs[order[j]].readable
                /\ extract_agent_from_filename[order[j]]
                      = extract_agent_from_filename[order[k]])}}
KeptHandoffs(fs, order) ==
    {order[i] : i \in {k \in 1..Len(order) :
        /\ fs[order[k]].readable
        /\ \A j \in 1..(k - 1) :
              ~(/\ fs[order[j]].readable
                /\ extract_agent_from_filename[order[j]]
                      = extract_agent_from_filename[order[k]])}}

\* The decision-queue document and the ownership table of each content
\* version: version c lists c critical entries and one high entry, and
\* assigns file list c to Agent 1.
ReviewDocOf(c) == <<"critical">> \o [i \in 1..c |-> "entry"] \o <<"high", "entry", "medium">>
agent_files(c) == [a \in {"agent-1"} |-> c]

\* The agents of a re-scan: one per kept status document, then the ownership
\* merge: an id of the ownership table without a record gets an idle record,
\* an id with a record gets its files_owned replaced.
ScannedAgentsMut(fs, order) ==
    LET kept == KeptHandoffs(fs, order)
        from_handoff == [a \in {extract_agent_from_filename[p] : p \in kept} |->
            parse_handoff_file(fs,
                CHOOSE p \in kept : extract_agent_from_filename[p] = a)]
        owned == IF fs[sprint_file].exists /\ fs[sprint_file].readable
                 THEN agent_files(fs[sprint_file].content) ELSE EmptyMap
    IN  [a \in DOMAIN from_handoff \cup DOMAIN owned |->
            IF a \notin DOMAIN from_handoff
            THEN [agent_id |-> a, handoff_file |-> "None", doc |-> 0,
                  status |-> "unknown", current_task |-> "No active task",
                  files_owned |-> owned[a]]
            ELSE IF a \in DOMAIN owned
            THEN [from_handoff[a] EXCEPT !.files_owned = owned[a]]
            ELSE from_handoff[a]]
ScannedAgents(fs, order) ==
    LET kept == KeptHandoffs(fs, order)
        from_handoff == [a \in {extract_agent_from_filename[p] : p \in kept} |->
            parse_handoff_file(fs,
                CHOOSE p \in kept : extract_agent_from_filename[p] = a)]
        owned == IF fs[sprint_file].exists /\ fs[sprint_file].readable
                 THEN agent_files(fs[sprint_file].content) ELSE EmptyMap
    IN  [a \in DOMAIN from_handoff \cup DOMAIN owned |->
            IF a \notin DOMAIN from_handoff
            THEN [agent_id |-> a, handoff_file |-> "None", doc |-> 0,
                  status |-> "idle", current_task |-> "No recent activity",
                  files_owned |-> owned[a]]
            ELSE IF a \in DOMAIN owned
            THEN [from_handoff[a] EXCEPT !.files_owned = owned[a]]
            ELSE from_handoff[a]]

\* The files a re-scan records a digest for.
TrackedFiles(fs, order) ==
    KeptHandoffs(fs, order)
        \cup {p \in {review_file, sprint_file} : fs[p].exists}

\* The ProjectState a re-scan at time t builds.
Rescan(fs, order, t) ==
    [agents |-> ScannedAgents(fs, order),
     review_items |->
        IF fs[review_file].exists /\ fs[review_file].readable
        THEN parse_review_file(ReviewDocOf(fs[review_file].content), 0)
        ELSE <<>>,
     last_refresh |-> t,
     sprint_info |->
        IF fs[sprint_file].exists /\ fs[sprint_file].readable
        THEN agent_files(fs[sprint_file].content) ELSE EmptyMap,
     file_hashes |-> [p \in TrackedFiles(fs, order) |-> calculate_file_hash(fs, p)]]

\* _discover_handoff_files: the names glob finds, sorted by os.path.getmtime,
\* newest first.  getmtime raises on a name whose file is not there (a
\* dangling link); the except clause then returns the empty list.
discover_handoff_files(fs, order) ==
    IF \E p \in HandoffPaths : fs[p].dangling THEN <<>> ELSE order

\* What one re-scan adds to parse_stats['handoff_files_errors']: one for
\* each discovered status document that _parse_handoff_file cannot read.
handoff_files_errors(fs, handoff_files) ==
    Cardinality({p \in Range(handoff_files) : ~fs[p].readable})

\* FileParser.parse_project_state(force_refresh).  The counters of
\* parse_stats appear as what the call adds to them: last_call.reason
\* "fresh" is a cache hit, any other a cache miss, last_call.parsed holds
\* the documents handed to a parser and last_call.errors the increase of
\* handoff_files_errors.
parse_project_state(force_refresh) ==
    LET reason == RefreshReason(force_refresh, cached_data, files, now)
        handoff_files == discover_handoff_files(files, mtime_order)
    IN  /\ IF reason = "fresh"
           THEN /\ returned' = cached_data
                /\ last_call' = [reason |-> reason, force |-> force_refresh,
                                 parsed |-> {}, errors |-> 0]
                /\ UNCHANGED <<cached_data, scanned_content>>
           ELSE /\ cached_data' = Rescan(files, handoff_files, now)
                /\ returned' = cached_data'
                /\ last_call' =
                     [reason |-> reason, force |-> force_refresh,
                      parsed |-> Range(handoff_files)
                          \cup {p \in {review_file, sprint_file} : files[p].exists},
                      errors |-> handoff_files_errors(files, handoff_files)]
                /\ scanned_content' =
                     [p \in TrackedFiles(files, handoff_files) |-> files[p].content]
        /\ UNCHANGED <<files, mtime_order, now>>
        /\ UNCHANGED <<engineVars, appVars, uiVars, reviewVars, handoffVars, snapshotVars>>

\* ---- the environment: other processes write the files, time passes ----

\* A file is created, or rewritten with another content.
write_file(p, c) ==
    /\ ~files[p].exists \/ files[p].content # c
    /\ files' = [files EXCEPT ![p] =
          [exists |-> TRUE, content |-> c,
           readable |-> IF @.exists THEN @.readable ELSE TRUE,
           dangling |-> FALSE]]
    /\ mtime_order' = IF p \in HandoffPaths
                      THEN <<p>> \o SelectSeq(mtime_order, LAMBDA q : q # p)
                      ELSE mtime_order
    /\ last_call' = NoCall
    /\ UNCHANGED <<now, cached_data, returned, scanned_content>>
    /\ UNCHANGED <<engineVars, appVars, uiVars, reviewVars, handoffVars, snapshotVars>>

\* A file is removed.
delete_file(p) ==
    /\ files[p].exists \/ files[p].dangling
    /\ files' = [files EXCEPT ![p] = NoFile]
    /\ mtime_order' = SelectSeq(mtime_order, LAMBDA q : q # p)
    /\ last_call' = NoCall
    /\ UNCHANGED <<now, cached_data, returned, scanned_content>>
    /\ UNCHANGED <<engineVars, appVars, uiVars, reviewVars, handoffVars, snapshotVars>>

\* A status document's name becomes a link to a file that is not there:
\* glob lists it, os.path.exists is False for it, it cannot be opened.
link_file(p) ==
    /\ p \in HandoffPaths
    /\ ~files[p].dangling
    /\ files' = [files EXCEPT ![p] = [NoFile EXCEPT !.dangling = TRUE]]
    /\ mtime_order' = SelectSeq(mtime_order, LAMBDA q : q # p)
    /\ last_call' = NoCall
    /\ UNCHANGED <<now, cached_data, returned, scanned_content>>
    /\ UNCHANGED <<engineVars, appVars, uiVars, reviewVars, handoffVars, snapshotVars>>

\* The permissions of a file change: it becomes unreadable, or readable.
chmod_file(p) ==
    /\ files[p].exists
    /\ files' = [files EXCEPT ![p].readable = ~@]
    /\ last_call' = NoCall
    /\ UNCHANGED <<mtime_order, now, cached_data, returned, scanned_content>>
    /\ UNCHANGED <<engineVars, appVars, uiVars, reviewVars, handoffVars, snapshotVars>>

\* Half a freshness window passes.
tick ==
    /\ now + cache_timeout \div 2 <= MaxTime
    /\ now' = now + cache_timeout \div 2
    /\ last_call' = NoCall
    /\ UNCHANGED <<files, mtime_order, cached_data, returned, scanned_content>>
    /\ UNCHANGED <<engineVars, appVars, uiVars, reviewVars, handoffVars, snapshotVars>>

\* The files the environment of SpecRefresh touches.
RefreshPaths == {"handoff-1_1.md", review_file}

RefreshInit == EngineIdle /\ AppIdle /\ create_agent_manager_ui /\ DataIdle
RefreshNext ==
    \/ \E force_refresh \in BOOLEAN : parse_project_state(force_refresh)
    \/ \E p \in RefreshPaths, c \in 1..MaxContent : write_file(p, c)
    \/ \E p \in RefreshPaths : delete_file(p)
    \/ \E p \in RefreshPaths : chmod_file(p)
    \/ tick
SpecRefresh == RefreshInit /\ [][RefreshNext]_vars

(***************************************************************************)
(* Properties of the cache                                                 *)
(***************************************************************************)

\* The digest a snapshot holds for a file; "untracked" when it holds none.
DigestIn(snapshot, p) ==
    IF p \in DOMAIN snapshot.file_hashes THEN snapshot.file_hashes[p] ELSE "untracked"

\* C8: a call without force, made while a snapshot is cached, at most 30
\* seconds old, and every tracked file still has the digest the snapshot
\* holds, returns that snapshot, leaves the cache as it is and parses no
\* document; if a call came right before it, both returned the same snapshot.
C8_CacheHit ==
    [][(/\ last_call'.reason # "none" /\ ~last_call'.force
        /\ cached_data # NoSnapshot
        /\ now - cached_data.last_refresh <= 30
        /\ \A p \in DOMAIN cached_data.file_hashes :
              calculate_file_hash(files, p) = cached_data.file_hashes[p])
       => (/\ last_call'.reason = "fresh"
           /\ last_call'.parsed = {}
           /\ cached_data' = cached_data
           /\ returned' = cached_data
           /\ (last_call.reason # "none" => returned' = returned))]_vars

\* C8 witness: a cache hit on a snapshot exactly 30 seconds old that tracks
\* a status document and the decision queue.
C8_Witness ==
    /\ last_call.reason = "fresh"
    /\ now - cached_data.last_refresh = 30
    /\ DOMAIN cached_data.file_hashes = RefreshPaths
    /\ returned = cached_data

\* The tracked files whose content is not the one they had when the snapshot
\* was cached.
ModifiedFiles ==
    {p \in DOMAIN cached_data.file_hashes :
        files[p].exists /\ files[p].content # scanned_content[p]}

\* C9 as stated: when a tracked file's content was modified after the snapshot
\* was cached and the snapshot is at most 30 seconds old, the next call
\* without force re-scans and the new snapshot's digest for that file differs
\* from the cached one.
C9_InvalidationAsStated ==
    [][(/\ last_call'.reason # "none" /\ ~last_call'.force
        /\ cached_data # NoSnapshot
        /\ now - cached_data.last_refresh <= 30
        /\ ModifiedFiles # {})
       => (/\ last_call'.reason = "changed"
           /\ \A p \in ModifiedFiles :
                 DigestIn(cached_data', p) # cached_data.file_hashes[p])]_vars

\* C9 amended: the same for the modified files that could be read when the
\* snapshot was cached or can be read at the call (a file that cannot be
\* opened has the empty digest whatever it contains).
C9_Invalidation ==
    [][(/\ last_call'.reason # "none" /\ ~last_call'.force
        /\ cached_data # NoSnapshot
        /\ now - cached_data.last_refresh <= 30)
       => \A p \in ModifiedFiles :
            (files[p].readable \/ cached_data.file_hashes[p] # "") =>
                /\ last_call'.reason = "changed"
                /\ DigestIn(cached_data', p) # cached_data.file_hashes[p]]_vars

\* C9 witness: a call has re-scanned because a tracked file had changed, and
\* the new snapshot tracks a status document and the decision queue.
C9_Witness ==
    /\ last_call.reason = "changed"
    /\ ~last_call.force
    /\ DOMAIN cached_data.file_hashes = RefreshPaths
    /\ \A p \in RefreshPaths : cached_data.file_hashes[p] # ""

(***************************************************************************)
(* The decision queue component: display order and selected entry          *)
(***************************************************************************)

\* Longest list handed to set_review_items in SpecQueue.
MaxQueue == 3

\* Every list of up to MaxQueue items; an item carries its position in the
\* input as agent_id and any priority, "low" being one priority_order does
\* not know.
QueueLists ==
    UNION {{[i \in 1..n |-> [agent_id |-> i, priority |-> f[i]]] :
                f \in [1..n -> Range(Priorities) \cup {"low"}]} : n \in 0..MaxQueue}

\* ReviewQueueComponent.get_selected_item: the item, or nothing (None).
get_selected_item(c, items) ==
    IF 0 <= c.selected_index /\ c.selected_index < Len(items)
    THEN <<items[c.selected_index + 1]>> ELSE <<>>

QueueInit == EngineIdle /\ AppIdle /\ DataIdle /\ create_agent_manager_ui
QueueNext ==
    \/ \E items \in QueueLists : set_review_items(items) /\ UNCHANGED <<engineVars, appVars, dataVars>>
    \/ \E delta \in {-1, 1} : review_move_selection(delta) /\ UNCHANGED <<engineVars, appVars, dataVars>>
SpecQueue == QueueInit /\ [][QueueNext]_vars

\* How often e occurs in the sequence s.
Occurrences(s, e) == Cardinality({i \in 1..Len(s) : s[i] = e})
IsPermutation(s, t) ==
    /\ Len(s) = Len(t)
    /\ \A e \in Range(s) \cup Range(t) : Occurrences(s, e) = Occurrences(t, e)
\* The display rank of a priority: critical < high < medium, anything else last.
Rank(pr) == IF pr = "critical" THEN 0 ELSE IF pr = "high" THEN 1
            ELSE IF pr = "medium" THEN 2 ELSE 3

\* C11: after set_review_items the displayed list is a permutation of the
\* list handed in, critical entries before high before medium; and in every
\* state get_selected_item returns the entry at selected_index of the
\* displayed list (nothing only when the list is empty).
C11_DisplayOrder ==
    /\ ui_op = "set_review_items" => IsPermutation(review_items, ui_input)
    /\ \A i, j \in 1..Len(review_items) :
          i < j => Rank(review_items[i].priority) <= Rank(review_items[j].priority)
    /\ get_selected_item(comp["review"], review_items) =
          IF review_items = <<>> THEN <<>>
          ELSE <<review_items[comp["review"].selected_index + 1]>>

\* C11 witness: a list given in the order medium, high, critical is displayed
\* reversed, and the selection stands on its last entry.
C11_Witness ==
    /\ ui_op = "set_review_items"
    /\ Len(ui_input) = 3
    /\ ui_input[1].priority = "medium" /\ ui_input[3].priority = "critical"
    /\ review_items[1] = ui_input[3]
    /\ comp["review"].selected_index = 2

(***************************************************************************)
(* The ownership merge of a re-scan                                        *)
(***************************************************************************)

\* The files the environment of SpecMerge touches.
MergePaths == {"handoff-1_1.md", sprint_file}

MergeNext ==
    \/ \E force_refresh \in BOOLEAN : parse_project_state(force_refresh)
    \/ \E p \in MergePaths, c \in 1..MaxContent : write_file(p, c)
    \/ \E p \in MergePaths : delete_file(p)
    \/ \E p \in MergePaths : chmod_file(p)
SpecMerge == RefreshInit /\ [][MergeNext]_vars

\* The ownership table a scan of the files reads, and the agent ids that get
\* a record from a status document in that scan.
OwnershipRead ==
    IF files[sprint_file].exists /\ files[sprint_file].readable
    THEN agent_files(files[sprint_file].content) ELSE EmptyMap
HandoffIds ==
    {extract_agent_from_filename[p] :
        p \in {q \in HandoffPaths : files[q].exists /\ files[q].readable}}

\* C14: a re-scan gives every agent id of the ownership table that has no
\* record from a status document a record with status idle, task "No recent
\* activity" and the table's files; an id that has one keeps that record with
\* only files_owned replaced by the table's list.
C14_OwnershipMerge ==
    [][last_call'.reason \notin {"none", "fresh"} =>
        \A a \in DOMAIN OwnershipRead :
            /\ a \in DOMAIN cached_data'.agents
            /\ a \notin HandoffIds =>
                 /\ cached_data'.agents[a].agent_id = a
                 /\ cached_data'.agents[a].status = "idle"
                 /\ cached_data'.agents[a].current_task = "No recent activity"
                 /\ cached_data'.agents[a].files_owned = OwnershipRead[a]
            /\ a \in HandoffIds =>
                 \E p \in HandoffPaths :
                    cached_data'.agents[a] =
                        [parse_handoff_file(files, p) EXCEPT !.files_owned = OwnershipRead[a]]
       ]_vars

\* C14 witness: a snapshot holding a record parsed from a status document
\* and, next to it, the idle record made for Agent 1 of the ownership table.
C14_Witness ==
    /\ last_call.reason \notin {"none", "fresh"}
    /\ "agent-1" \in DOMAIN cached_data.agents
    /\ "handoff-1_1" \in DOMAIN cached_data.agents
    /\ cached_data.agents["agent-1"].status = "idle"
    /\ cached_data.agents["agent-1"].files_owned = 2

(***************************************************************************)
(* LayoutManager: focus and key routing                                    *)
(***************************************************************************)

\* PaneType: the four panes that have a component, and STATUS, which has none.
PaneTypes == Panes \cup {"status"}
pane_order == <<"agents", "tasks", "review", "details">>

\* The keys: q, r, Tab, ?, h, the four letters of the decision queue, the
\* arrows and their vi equivalents, Enter, Space, and x for any other key.
Keys == {"q", "r", "tab", "?", "h", "a", "b", "d", "up", "down", "j", "k",
         "enter", "space", "x"}

\* Longest agent list and decision list of a snapshot shown by the panes.
MaxShown == 2
\* The snapshots the panes are given: n agents and n decisions, the
\* decisions in priority order (k = 0) or not (k = 1).
Snapshots ==
    {[agents |-> [i \in 1..n |-> i],
      review_items |-> [i \in 1..n |-> [agent_id |-> i,
                                         priority |-> Priorities[((i + k) % 3) + 1]]]] :
        n \in 0..MaxShown, k \in 0..1}

NoSnapshotShown == [agents |-> <<>>, review_items |-> <<>>]

\* LayoutManager.set_focus: every component loses the focus, then the
\* component of pane_type, if there is one, gets it and focused_pane is set.
set_focus_components(cs, pane_type) ==
    [p \in Panes |-> [cs[p] EXCEPT !.is_focused = (p = pane_type)]]
set_focus_pointer(fp, pane_type) == IF pane_type \in Panes THEN pane_type ELSE fp

\* LayoutManager.cycle_focus: the pane after fp in pane_order.
next_pane_mut(fp) ==
    IF fp \in Range(pane_order)
    THEN pane_order[(((CHOOSE i \in 1..Len(pane_order) : pane_order[i] = fp) + 1)
                        % Len(pane_order)) + 1]
    ELSE "agents"
next_pane(fp) ==
    IF fp \in Range(pane_order)
    THEN pane_order[((CHOOSE i \in 1..Len(pane_order) : pane_order[i] = fp)
                        % Len(pane_order)) + 1]
    ELSE "agents"

\* handle_key of the component of pane p: the token it returns ...
handle_key_token(p, key) ==
    CASE p = "agents" /\ key \in {"enter", "space"} -> "select_agent"
      [] p = "review" /\ key = "a" -> "approve_item"
      [] p = "review" /\ key = "b" -> "block_item"
      [] p = "review" /\ key = "r" -> "revision_item"
      [] p = "review" /\ key = "d" -> "defer_item"
      [] p = "review" /\ key = "enter" -> "select_item"
      [] OTHER -> "none"
\* ... and the component it leaves, n being the length of its list
\* (UIComponent.handle_key of the two detail panes does nothing).
handle_key_component(p, c, n, key) ==
    IF p \in {"agents", "review"} /\ key \in {"up", "k"} THEN move_selection(c, n, -1)
    ELSE IF p \in {"agents", "review"} /\ key \in {"down", "j"} THEN move_selection(c, n, 1)
    ELSE c
ListLength(p) ==
    IF p = "agents" THEN Len(agents) ELSE IF p = "review" THEN Len(review_items) ELSE 0

\* LayoutManager.set_focus
set_focus(pane_type) ==
    /\ comp' = set_focus_components(comp, pane_type)
    /\ focused_pane' = set_focus_pointer(focused_pane, pane_type)
    /\ ui_op' = "set_focus"
    /\ ui_input' = <<>>
    /\ UNCHANGED <<agents, review_items, current_layout>>

\* LayoutManager.cycle_focus
cycle_focus ==
    /\ comp' = set_focus_components(comp, next_pane(focused_pane))
    /\ focused_pane' = set_focus_pointer(focused_pane, next_pane(focused_pane))
    /\ ui_op' = "cycle_focus"
    /\ ui_input' = <<>>
    /\ UNCHANGED <<agents, review_items, current_layout>>

\* LayoutManager.handle_key: the key goes to the component of focused_pane.
handle_key(key) ==
    /\ comp' = [comp EXCEPT ![focused_pane] =
                   handle_key_component(focused_pane, @, ListLength(focused_pane), key)]
    /\ ui_op' = "handle_key"
    /\ ui_input' = <<>>
    /\ UNCHANGED <<agents, review_items, current_layout, focused_pane>>

\* The UI after create_agent_manager_ui and a first set_agents and
\* set_review_items.
FocusInit ==
    /\ EngineIdle
    /\ AppIdle
    /\ DataIdle
    /\ \E shown \in Snapshots :
         /\ agents = shown.agents
         /\ review_items = SortedByPriority(shown.review_items)
         /\ ui_input = shown.review_items
    /\ comp = [p \in Panes |-> NewComponent(p)]
    /\ current_layout = NoLayout
    /\ focused_pane = "agents"
    /\ ui_op = "set_review_items"
FocusNext ==
    \/ \E pane_type \in PaneTypes :
          set_focus(pane_type) /\ UNCHANGED <<engineVars, appVars, dataVars>>
    \/ cycle_focus /\ UNCHANGED <<engineVars, appVars, dataVars>>
    \/ \E key \in Keys : handle_key(key) /\ UNCHANGED <<engineVars, appVars, dataVars>>
SpecFocus == FocusInit /\ [][FocusNext]_vars

\* C16: after create_agent_manager_ui, under any sequence of set_focus,
\* cycle_focus and keys, exactly one pane has is_focused = TRUE and it is the
\* pane focused_pane names.
C16_ExactlyOneFocused ==
    /\ Cardinality({p \in Panes : comp[p].is_focused}) = 1
    /\ comp[focused_pane].is_focused

(***************************************************************************)
(* AgentManagerApp: the input and draw handlers it gives to TUIEngine      *)
(***************************************************************************)

\* What running the approval command comes to: the script is at neither
\* path, exit code 0, another exit code, TimeoutExpired, or subprocess.run
\* raising (the script cannot be executed).
ScriptOutcomes == {"not_found", "ok", "nonzero", "timeout", "oserror"}

\* action.replace("_item", "") in _handle_input.
action_name(token) ==
    CASE token = "approve_item" -> "approve"
      [] token = "block_item" -> "block"
      [] token = "revision_item" -> "revision"
      [] token = "defer_item" -> "defer"
      [] OTHER -> "none"

\* _execute_human_review_action: what it returns and the status message it
\* leaves.  "stderr" is the message built from result.stderr; after exit
\* code 0 the forced _refresh_data replaces the message by its own.
execute_human_review_action(outcome) ==
    CASE outcome = "not_found" -> [ok |-> FALSE, status_message |-> "script_not_found"]
      [] outcome = "ok" -> [ok |-> TRUE, status_message |-> "data_refreshed"]
      [] outcome = "nonzero" -> [ok |-> FALSE, status_message |-> "stderr"]
      [] outcome = "timeout" -> [ok |-> FALSE, status_message |-> "timeout"]
      [] OTHER -> [ok |-> FALSE, status_message |-> "exception"]

\* _refresh_data once the parser has returned a snapshot: set_agents and
\* set_review_items on the two list components, set_selected_agent on the
\* task pane with the agent list's selected entry (<<>> for None), and
\* set_content on the details pane.
refresh_data(cs, shown) ==
    LET listed == [cs EXCEPT !["agents"] = ClampSelection(@, Len(shown.agents)),
                             !["review"] = ClampSelection(@, Len(shown.review_items))]
    IN  [listed EXCEPT
            !["tasks"].selected_agent = get_selected_item(listed["agents"], shown.agents),
            !["tasks"].scroll_offset = 0,
            !["details"].scroll_offset = 0]

\* The application state one _handle_input(key) call leaves, and what it
\* returns.  outcome is what the approval command does if it is run; shown
\* is the snapshot the parser returns if the data is refreshed.
HandleInput(key, outcome, shown) ==
    LET now_is == [comp |-> comp, agents |-> agents, review_items |-> review_items,
                   focused_pane |-> focused_pane, status_message |-> status_message,
                   last_action |-> last_action, requested |-> NoRequest,
                   returns |-> "None"]
        refreshed == [now_is EXCEPT !.comp = refresh_data(comp, shown),
                                    !.agents = shown.agents,
                                    !.review_items = SortedByPriority(shown.review_items),
                                    !.status_message = "data_refreshed"]
        token == handle_key_token(focused_pane, key)
        moved == [now_is EXCEPT !.comp[focused_pane] =
                     handle_key_component(focused_pane, @, ListLength(focused_pane), key)]
        selected_item == get_selected_item(comp["review"], review_items)
        result == execute_human_review_action(outcome)
        call == [action |-> action_name(token), agent_id |-> selected_item[1].agent_id,
                 outcome |-> outcome]
    IN  CASE key = "q" -> [now_is EXCEPT !.returns = "quit"]
          [] key = "r" -> [refreshed EXCEPT !.last_action = "refresh"]
          [] key = "tab" ->
                [now_is EXCEPT !.comp = set_focus_components(comp, next_pane(focused_pane)),
                               !.focused_pane = set_focus_pointer(focused_pane, next_pane(focused_pane)),
                               !.last_action = "switch pane"]
          [] key \in {"?", "h"} ->
                [now_is EXCEPT !.status_message = "help", !.last_action = "help"]
          [] OTHER ->
                CASE token = "select_agent" ->
                        [moved EXCEPT
                            !.comp["tasks"].selected_agent =
                                get_selected_item(comp["agents"], agents),
                            !.comp["tasks"].scroll_offset = 0,
                            !.last_action = "selected"]
                  [] token = "select_item" -> [moved EXCEPT !.last_action = "selected review"]
                  [] token \in {"approve_item", "block_item", "revision_item", "defer_item"} ->
                        IF selected_item = <<>>
                        THEN [moved EXCEPT !.status_message = "no_item_selected"]
                        ELSE IF result.ok
                        THEN [refreshed EXCEPT !.requested = call,
                                               !.last_action = call.action]
                        ELSE [moved EXCEPT !.requested = call,
                                           !.status_message = result.status_message,
                                           !.last_action = "failed " \o call.action]
                  [] OTHER -> moved

\* Whether _handle_input(key) runs the approval command, and whether it
\* refreshes the data (the r key, or the command exiting with code 0).
RunsScript(key) ==
    /\ key \notin {"q", "r", "tab", "?", "h"}
    /\ action_name(handle_key_token(focused_pane, key)) # "none"
    /\ get_selected_item(comp["review"], review_items) # <<>>
Refreshes(key, outcome) == key = "r" \/ (RunsScript(key) /\ outcome = "ok")

\* _safe_input with a key waiting: _handle_input(key), then the quit test of
\* the loop.  _handle_input catches every Exception itself.
handle_input(key) ==
    /\ pc = "input"
    /\ \E outcome \in (IF RunsScript(key) THEN ScriptOutcomes ELSE {"ok"}) :
        \E shown \in (IF Refreshes(key, outcome) THEN Snapshots ELSE {NoSnapshotShown}) :
         LET post == HandleInput(key, outcome, shown)
         IN  /\ comp' = post.comp
             /\ agents' = post.agents
             /\ review_items' = post.review_items
             /\ focused_pane' = post.focused_pane
             /\ status_message' = post.status_message
             /\ last_action' = post.last_action
             /\ requested' = post.requested
             /\ IF post.returns = "quit"
                THEN loop_exit' = "quit" /\ pc' = "check"
                ELSE pc' = "loop" /\ UNCHANGED loop_exit
    /\ last_calls' = <<"input">>
    /\ ui_op' = "handle_input"
    /\ ui_input' = <<>>
    /\ UNCHANGED <<state, stdscr, term, curs_ok, terminal_info, term_size,
                   resize_pending, shutdown_requested, error_count, exit_code>>
    /\ UNCHANGED <<current_layout, status_line, dataVars, legacyVars, screenVars>>

\* The seconds after which subprocess.run gives up, and the seconds after
\* which _refresh_data reads the files again.
command_timeout == 10
refresh_interval == 10
\* The command of this iteration ran into its timeout: _handle_input took
\* command_timeout seconds, so the refresh interval has passed for certain.
RefreshIsDue == requested.outcome = "timeout" /\ command_timeout >= refresh_interval

\* _safe_draw with _draw_interface as the draw callback: _refresh_data when
\* the refresh interval has passed (due), update_layout for the terminal
\* size, draw_all, then the status message on the last line.
\* _draw_interface catches every Exception itself.
draw_interface ==
    /\ pc = "draw"
    /\ \E due \in (IF RefreshIsDue THEN {TRUE} ELSE BOOLEAN) :
        \E shown \in (IF due THEN Snapshots ELSE {NoSnapshotShown}) :
         LET cs == IF due THEN refresh_data(comp, shown) ELSE comp
             layout == calculate_layout(terminal_info.width, terminal_info.height)
         IN  /\ comp' = LayoutApplied(cs, layout)
             /\ current_layout' = layout
             /\ agents' = (IF due THEN shown.agents ELSE agents)
             /\ review_items' = (IF due THEN SortedByPriority(shown.review_items) ELSE review_items)
             /\ status_message' = (IF due THEN "data_refreshed" ELSE status_message)
             /\ status_line' = status_message'
    /\ pc' = "input"
    /\ last_calls' = <<"draw">>
    /\ ui_op' = "draw"
    /\ ui_input' = <<>>
    /\ UNCHANGED <<state, stdscr, term, curs_ok, terminal_info, term_size,
                   resize_pending, shutdown_requested, error_count, exit_code, loop_exit>>
    /\ requested' = NoRequest
    /\ UNCHANGED <<focused_pane, last_action, dataVars, legacyVars, screenVars>>

\* AgentManagerApp.run at the entry of the engine's loop: the UI created,
\* the first forced _refresh_data done, curses initialised.  The parser's
\* snapshot is an input here; its own state is that of SpecRefresh.
AppInit ==
    /\ state = "running"
    /\ stdscr = TRUE
    /\ term = "acquired"
    /\ curs_ok = TRUE
    /\ terminal_info = DefaultTerminalInfo
    /\ term_size = DefaultTerminalInfo
    /\ resize_pending = FALSE
    /\ shutdown_requested = FALSE
    /\ error_count = 0
    /\ exit_code = 0
    /\ pc = "loop"
    /\ loop_exit = "none"
    /\ last_calls = <<>>
    /\ DataIdle
    /\ \E shown \in Snapshots :
         /\ agents = shown.agents
         /\ review_items = SortedByPriority(shown.review_items)
         /\ ui_input = shown.review_items
         /\ comp = refresh_data([p \in Panes |-> NewComponent(p)], shown)
    /\ current_layout = NoLayout
    /\ focused_pane = "agents"
    /\ ui_op = "set_review_items"
    /\ status_message = "data_refreshed"
    /\ last_action = "startup"
    /\ requested = NoRequest
    /\ status_line = "none"
    /\ LegacyIdle
    /\ ScreenIdle
AppNext ==
    \/ run_loop
    \/ draw_interface
    \/ \E key \in Keys : handle_input(key)
    \/ run_check
    \/ run_finally
SpecApp == AppInit /\ [][AppNext]_vars

(***************************************************************************)
(* Properties of the application's handlers                                *)
(***************************************************************************)

\* The message _execute_human_review_action leaves for a failed command.
FailureMessage(outcome) ==
    CASE outcome = "not_found" -> "script_not_found"
      [] outcome = "nonzero" -> "stderr"
      [] outcome = "timeout" -> "timeout"
      [] OTHER -> "exception"
Failures == {"not_found", "nonzero", "timeout"}

\* The part of C15 about _handle_input alone: a failed command leaves its
\* message in status_message, _handle_input returns normally, the loop goes
\* on in state RUNNING and the engine's error count and error callback are
\* untouched.
ActionFailureHandled ==
    [][(pc = "input" /\ requested'.outcome \in Failures) =>
          /\ status_message' = FailureMessage(requested'.outcome)
          /\ state' = "running"
          /\ pc' = "loop"
          /\ error_count' = error_count
          /\ exit_code' = exit_code
          /\ loop_exit' = loop_exit
          /\ last_calls' = <<"input">>]_vars

\* C15: when the action command fails (not found, non-zero exit, timeout)
\* the failure is surfaced only as a status-line message (the command's
\* stderr for a non-zero exit): no exception reaches the loop, the loop
\* stays RUNNING, the engine's error count is unchanged, and the status line
\* painted next shows the message.
C15_ActionFailureSurfaced ==
    [][/\ (pc = "input" /\ requested'.outcome \in Failures) =>
             /\ status_message' = FailureMessage(requested'.outcome)
             /\ state' = "running"
             /\ pc' = "loop"
             /\ error_count' = error_count
       /\ (pc = "draw" /\ requested.outcome \in Failures) =>
             status_line' = FailureMessage(requested.outcome)]_vars

\* The fixed cyclic order of the panes, as a successor table.
PaneAfter ==
    [agents |-> "tasks", tasks |-> "review", review |-> "details", details |-> "agents"]

\* C17: the focus-cycle key moves the focus to the next pane of the cyclic
\* order agents, tasks, review, details, agents; every other key handled by
\* _handle_input leaves focused_pane as it is, and so does every other step
\* of the application.
C17_FocusOnlyByCycle ==
    [][/\ \A key \in Keys :
             handle_input(key) =>
                 focused_pane' = (IF key = "tab" THEN PaneAfter[focused_pane]
                                  ELSE focused_pane)
       /\ focused_pane' # focused_pane => handle_input("tab")]_vars

\* C17 witness: the cycle key has just been handled and the focus is on the
\* agent list again, which the cycle reaches only from the details pane.
C17_Witness ==
    /\ pc = "loop"
    /\ ui_op = "handle_input"
    /\ last_action = "switch pane"
    /\ focused_pane = "agents"
    /\ comp["agents"].is_focused /\ ~comp["details"].is_focused

\* The four action keys of the decision queue and the action each names.
ActionKeys == [a |-> "approve", b |-> "block", r |-> "revision", d |-> "defer"]

\* C18: with the decision queue focused and an item selected, each of the
\* keys a, b, r, d handled by _handle_input requests the action it names for
\* the agent of the selected item.
C18_ActionKeysReachQueue ==
    [][\A key \in DOMAIN ActionKeys :
          (/\ handle_input(key)
           /\ focused_pane = "review"
           /\ get_selected_item(comp["review"], review_items) # <<>>) =>
              /\ requested'.action = ActionKeys[key]
              /\ requested'.agent_id =
                    get_selected_item(comp["review"], review_items)[1].agent_id]_vars

(***************************************************************************)
(* A re-scan over documents that cannot be read                            *)
(***************************************************************************)

\* The environment of SpecScan: two status documents of different agents,
\* either of which may be unreadable or a dangling link, and the decision
\* queue in one content version, readable or not.
ScanPaths == {"handoff-1_1.md", "handoff-2_2.md"}
ScanNext ==
    \/ parse_project_state(TRUE)
    \/ \E p \in ScanPaths, c \in 1..MaxContent : write_file(p, c)
    \/ write_file(review_file, 1)
    \/ \E p \in ScanPaths \cup {review_file} : delete_file(p)
    \/ \E p \in ScanPaths \cup {review_file} : chmod_file(p)
    \/ \E p \in ScanPaths : link_file(p)
SpecScan == RefreshInit /\ [][ScanNext]_vars

\* The documents a scan cannot read: a name without a file behind it, or a
\* file that cannot be opened.
BadDocuments ==
    {p \in Paths : files[p].dangling \/ (files[p].exists /\ ~files[p].readable)}

\* C19: a re-scan with one missing or unreadable document returns a
\* snapshot in which that document contributes nothing, every other readable
\* document still has its record (its items for the decision queue), and
\* the parser's error counter has been incremented.
C19_BadDocumentTolerated ==
    (last_call.reason \notin {"none", "fresh"} /\ Cardinality(BadDocuments) = 1) =>
        /\ \A p \in HandoffPaths :
              (\E a \in DOMAIN returned.agents : returned.agents[a].handoff_file = p)
                  <=> (files[p].exists /\ files[p].readable)
        /\ returned.review_items =
              (IF files[review_file].exists /\ files[review_file].readable
               THEN parse_review_file(ReviewDocOf(files[review_file].content), 0)
               ELSE <<>>)
        /\ last_call.errors >= 1

(***************************************************************************)
(* A re-scan over several status documents of one agent                    *)
(***************************************************************************)

\* The environment of SpecLatest: two status documents whose names carry
\* the same agent id.
LatestPaths == {"handoff-1_1.md", "handoff-1_1-b.md"}
LatestNext ==
    \/ \E force_refresh \in BOOLEAN : parse_project_state(force_refresh)
    \/ \E p \in LatestPaths, c \in 1..MaxContent : write_file(p, c)
    \/ \E p \in LatestPaths : delete_file(p)
    \/ \E p \in LatestPaths : chmod_file(p)
    \/ \E p \in LatestPaths : link_file(p)
SpecLatest == RefreshInit /\ [][LatestNext]_vars

\* The positions in mtime_order (newest first) of the status documents
\* whose name carries agent id a, and of those among them that can be read.
DocsOf(a) ==
    {i \in 1..Len(mtime_order) : extract_agent_from_filename[mtime_order[i]] = a}
ReadableDocsOf(a) == {i \in DocsOf(a) : files[mtime_order[i]].readable}
First(S) == CHOOSE i \in S : \A j \in S : i <= j

\* C20 as stated: after a re-scan every record of the agent map is stored
\* under its own agent_id and is the one parsed from the most recently
\* modified status document carrying that id.
C20_LatestPerAgentAsStated ==
    last_call.reason \notin {"none", "fresh"} =>
        \A a \in DOMAIN returned.agents :
            /\ returned.agents[a].agent_id = a
            /\ DocsOf(a) # {}
            /\ returned.agents[a] = parse_handoff_file(files, mtime_order[First(DocsOf(a))])

\* C20: after a re-scan every record of the agent map is stored under its
\* own agent_id and is the one parsed from the most recently modified status
\* document carrying that id among those that could be read; a document
\* that cannot be read is passed over and an older one of the same id is
\* taken.
C20_LatestPerAgent ==
    last_call.reason \notin {"none", "fresh"} =>
        \A a \in DOMAIN returned.agents :
            /\ returned.agents[a].agent_id = a
            /\ ReadableDocsOf(a) # {}
            /\ returned.agents[a] =
                  parse_handoff_file(files, mtime_order[First(ReadableDocsOf(a))])

\* C20 witness: two readable documents of one agent with different content;
\* the re-scan has published the record of the newer one.
C20_Witness ==
    /\ last_call.reason \notin {"none", "fresh"}
    /\ Len(mtime_order) = 2
    /\ \A p \in LatestPaths : files[p].readable
    /\ files[mtime_order[1]].content # files[mtime_order[2]].content
    /\ "handoff-1_1" \in DOMAIN returned.agents
    /\ returned.agents["handoff-1_1"].handoff_file = mtime_order[1]
    /\ returned.agents["handoff-1_1"].doc = files[mtime_order[1]].content

(***************************************************************************)
(* AgentManager.approve_agent_request and the decisions directory          *)
(***************************************************************************)

\* The agents a review item can name and the decision verbs of the keys
\* a, b, r and d.
AgentIds == {"agent-1", "agent-2"}
DecisionVerbs == {"approved", "blocked", "needs-revision", "deferred"}

\* What one call can meet: open() of the decision file raising, the script
\* docs/scaffolding/human-review/quick-approve.sh absent, the script running
\* to exit code 0 or to another exit code, subprocess.run raising OSError
\* (the script exists and cannot be executed).
CommandOutcomes == {"write_fails", "absent", "exit_0", "exit_nonzero", "oserror"}
CommandFailed(outcome) == outcome \in {"exit_nonzero", "oserror"}

\* os.path.join(self.decisions_dir, f"{agent_id}-decision")
decision_file(agent_id) == <<".decisions", agent_id, "-decision">>

\* open(decision_file, 'w') and the four writes: the file of that name is
\* replaced.
write_decision(dir, agent_id, decision) ==
    {r \in dir : r.file # decision_file(agent_id)}
        \cup {[file |-> decision_file(agent_id), decision |-> decision]}

\* approve_agent_request: the record is written first, then the script is
\* run when it exists; its exit code is not looked at.  Any Exception gives
\* False.
approve_agent_request(agent_id, decision, outcome) ==
    /\ decisions' = (IF outcome = "write_fails"
                     THEN decisions
                     ELSE write_decision(decisions, agent_id, decision))
    /\ last_decision' = [agent_id |-> agent_id, decision |-> decision,
                         command |-> outcome,
                         returns |-> outcome \notin {"write_fails", "oserror"}]
    /\ UNCHANGED <<engineVars, uiVars, dataVars, screenVars, manager, legacy_queue,
                   status_message, last_action, requested, status_line>>

DecisionsInit == EngineIdle /\ AppIdle /\ DataIdle /\ create_agent_manager_ui
DecisionsNext ==
    \E agent_id \in AgentIds, decision \in DecisionVerbs, outcome \in CommandOutcomes :
        approve_agent_request(agent_id, decision, outcome)
SpecDecisions == DecisionsInit /\ [][DecisionsNext]_vars

\* The records the directory holds for an agent.
RecordsOf(dir, agent_id) == {r \in dir : r.file = decision_file(agent_id)}

\* C21: after any sequence of approve/block/revise/defer actions the
\* decisions directory holds at most one record per agent, an action whose
\* command succeeds leaves its own record as the record of that agent, and
\* an action whose command fails writes no decision record (the directory
\* is as it was before the action).
C21_DecisionRecords ==
    [][/\ \A a \in AgentIds : Cardinality(RecordsOf(decisions', a)) <= 1
       /\ last_decision'.command = "exit_0" =>
             RecordsOf(decisions', last_decision'.agent_id)
                 = {[file |-> decision_file(last_decision'.agent_id),
                     decision |-> last_decision'.decision]}
       /\ CommandFailed(last_decision'.command) => decisions' = decisions]_vars

(***************************************************************************)
(* TUIEngine.safe_addstr                                                   *)
(***************************************************************************)

\* The longest text handed to safe_addstr and the largest max_width.
MaxText == 4
MaxWidthArg == 3
Texts == {[i \in 1..n |-> "c"] : n \in 0..MaxText}
\* max_width: Optional[int] = None; None is written <<>>, an int n <<n>>.
WidthArgs == {<<>>} \cup {<<n>> : n \in 0..MaxWidthArg}
\* Rows and columns around the edges of the grid of terminal_info.
Rows(info) == {-1, 0, info.height - 1, info.height}
Columns(info) == {-1, 0, info.width - 2, info.width - 1, info.width}
\* stdscr.addstr returns or raises curses.error (as it does after writing
\* into the last cell of the window).
AddstrOutcomes == {"ok", "curses_error"}

\* "if max_width:" -- None and 0 both leave the width of the grid as limit.
available_width(info, x, max_width) ==
    IF max_width = <<>> \/ max_width = <<0>>
    THEN info.width - x
    ELSE Min(info.width - x, max_width[1])

\* text[:available_width-1] + ellipsis if available_width > 0 else "";
\* the one-character ellipsis U+2026 is written "ellipsis" here.
truncate(text, available) ==
    IF Len(text) > available
    THEN IF available > 0 THEN SubSeq(text, 1, available - 1) \o <<"ellipsis">> ELSE <<>>
    ELSE text

\* safe_addstr(y, x, text, attr, max_width): what it returns and the text it
\* hands to stdscr.addstr(y, x, ...) (<<>> when addstr is not called).
safe_addstr_result(scr, info, y, x, text, max_width, outcome) ==
    IF ~scr \/ info = NoTerminalInfo
    THEN [returns |-> FALSE, written |-> <<>>]
    ELSE IF y < 0 \/ y >= info.height \/ x < 0 \/ x >= info.width
    THEN [returns |-> FALSE, written |-> <<>>]
    ELSE LET t == truncate(text, available_width(info, x, max_width))
         IN  IF t = <<>>
             THEN [returns |-> TRUE, written |-> <<>>]
             ELSE [returns |-> (outcome = "ok"), written |-> t]

safe_addstr(y, x, text, max_width, outcome) ==
    /\ addstr_call' =
          [called |-> TRUE, y |-> y, x |-> x, text |-> text, max_width |-> max_width,
           returns |-> safe_addstr_result(stdscr, terminal_info, y, x, text,
                                          max_width, outcome).returns,
           written |-> safe_addstr_result(stdscr, terminal_info, y, x, text,
                                          max_width, outcome).written]
    /\ UNCHANGED <<engineVars, uiVars, dataVars, legacyVars, resize_call,
                   status_message, last_action, requested, status_line>>

\* The engine as constructed (no window, no terminal info), inside the loop
\* of run() on one of the terminal sizes, and after _cleanup_curses; the
\* arguments of the call that is about to be made.
AddstrInit ==
    /\ \E phase \in {"constructed", "running", "returned"}, size \in TermSizes :
         /\ state = (CASE phase = "constructed" -> "initializing"
                       [] phase = "running" -> "running"
                       [] phase = "returned" -> "shutting_down")
         /\ stdscr = (phase = "running")
         /\ term = (CASE phase = "constructed" -> "unacquired"
                      [] phase = "running" -> "acquired"
                      [] phase = "returned" -> "released")
         /\ terminal_info = (IF phase = "constructed" THEN NoTerminalInfo ELSE size)
         /\ term_size = (IF phase = "constructed" THEN DefaultTerminalInfo ELSE size)
         /\ pc = (CASE phase = "constructed" -> "start"
                    [] phase = "running" -> "draw"
                    [] phase = "returned" -> "returned")
         /\ \E y \in Rows(size), x \in Columns(size), text \in Texts,
               max_width \in WidthArgs :
                addstr_call = [NoAddstr EXCEPT !.y = y, !.x = x, !.text = text,
                                               !.max_width = max_width]
    /\ curs_ok = TRUE
    /\ resize_pending = FALSE
    /\ shutdown_requested = FALSE
    /\ error_count = 0
    /\ exit_code = 0
    /\ loop_exit = "none"
    /\ last_calls = <<>>
    /\ status_message = "ready"
    /\ last_action = "startup"
    /\ requested = NoRequest
    /\ status_line = "none"
    /\ resize_call = NoResizeCall
    /\ LegacyIdle
    /\ DataIdle
    /\ create_agent_manager_ui
AddstrNext ==
    /\ ~addstr_call.called
    /\ \E outcome \in AddstrOutcomes :
          safe_addstr(addstr_call.y, addstr_call.x, addstr_call.text,
                      addstr_call.max_width, outcome)
SpecAddstr == AddstrInit /\ [][AddstrNext]_vars

\* The latest call was made with a row or column outside the grid, or with
\* no terminal attached.
OutOfBounds ==
    \/ ~stdscr
    \/ terminal_info = NoTerminalInfo
    \/ addstr_call.y < 0 \/ addstr_call.y >= terminal_info.height
    \/ addstr_call.x < 0 \/ addstr_call.x >= terminal_info.width

\* The number of characters the claim allows the latest call to write.
WriteLimit ==
    IF addstr_call.max_width = <<>>
    THEN terminal_info.width - addstr_call.x
    ELSE Min(terminal_info.width - addstr_call.x, addstr_call.max_width[1])

\* C22: safe_addstr returns True or False (it never raises) and never writes
\* a cell outside the grid; with the row or column out of bounds, or no
\* terminal attached, it returns False and writes nothing; otherwise it
\* writes at most min(width - col, max_width) characters, and a longer text
\* is written with an ellipsis as its last character.
C22_SafeAddstr ==
    addstr_call.called =>
        /\ addstr_call.returns \in BOOLEAN
        /\ IF OutOfBounds
           THEN addstr_call.returns = FALSE /\ addstr_call.written = <<>>
           ELSE /\ addstr_call.x + Len(addstr_call.written) <= terminal_info.width
                /\ Len(addstr_call.written) <= WriteLimit
                /\ (Len(addstr_call.text) > WriteLimit /\ addstr_call.written # <<>>) =>
                      addstr_call.written[Len(addstr_call.written)] = "ellipsis"

\* The same with a max_width of 0 left aside: that part holds.
SafeAddstrPositiveWidth ==
    addstr_call.max_width # <<0>> => C22_SafeAddstr

(***************************************************************************)
(* Properties of the engine's signal handling, states and error counting   *)
(***************************************************************************)

\* C23: the delivery of a signal only sets the flag that belongs to it
\* (resize_pending for SIGWINCH, shutdown_requested for SIGINT and SIGTERM):
\* the other flag, the engine state, the terminal info, the error count,
\* the position of run() and all component state stay as they are, and no
\* draw, input, resize or error callback is invoked.
C23_SignalOnlySetsFlag ==
    [][\A signum \in Signals :
         signal_handler(signum) =>
            /\ IF signum = "SIGWINCH"
               THEN resize_pending' /\ shutdown_requested' = shutdown_requested
               ELSE shutdown_requested' /\ resize_pending' = resize_pending
            /\ state' = state
            /\ terminal_info' = terminal_info
            /\ error_count' = error_count
            /\ exit_code' = exit_code
            /\ pc' = pc
            /\ stdscr' = stdscr
            /\ uiVars' = uiVars
            /\ last_calls' = <<>>]_vars

\* C23 witness: SIGINT or SIGTERM was delivered between the draw and the
\* input of an iteration, with a resize still pending and errors counted.
C23_Witness ==
    /\ pc = "input"
    /\ last_calls = <<>>
    /\ shutdown_requested
    /\ resize_pending
    /\ state = "running"
    /\ error_count > 0

\* The changes of state the description of the engine names.
StatedTransitions ==
    {<<"initializing", "running">>, <<"running", "resizing">>,
     <<"resizing", "running">>, <<"running", "shutting_down">>,
     <<"running", "error">>, <<"error", "running">>}

\* C24 as stated: the state changes only along INITIALIZING -> RUNNING,
\* RUNNING -> RESIZING, RESIZING -> RUNNING, RUNNING -> SHUTTING_DOWN and the
\* ERROR excursion from and back to RUNNING.
C24_TransitionsAsStated ==
    [][state' # state => <<state, state'>> \in StatedTransitions]_vars

\* C24: during a call of run() the state changes only along the stated
\* transitions and along two more into SHUTTING_DOWN: from INITIALIZING when
\* run() ends before the loop (initialisation failed or the signal handlers
\* could not be installed), and from RESIZING when the resize callback
\* raises an interrupt.  RESIZING is entered only from RUNNING and no state
\* follows SHUTTING_DOWN.
C24_Transitions ==
    [][state' # state =>
         \/ <<state, state'>> \in StatedTransitions
         \/ /\ <<state, state'>> = <<"initializing", "shutting_down">>
            /\ loop_exit \in {"init_failed", "fault"}
         \/ /\ <<state, state'>> = <<"resizing", "shutting_down">>
            /\ loop_exit = "interrupt"]_vars

\* C24 witness: run() has returned after a failed initialisation, the state
\* having gone from INITIALIZING to SHUTTING_DOWN.
C24_Witness ==
    /\ pc = "returned"
    /\ state = "shutting_down"
    /\ loop_exit = "init_failed"
    /\ exit_code = 1

\* A step of _safe_draw or _safe_input in which a failure of the callback
\* was counted.
FailureCounted == pc \in {"draw", "input"} /\ error_count' > error_count

\* C25: when a draw or input callback raises while the engine is RUNNING,
\* the state becomes ERROR while the failure is recovered, and a state of
\* ERROR is left for RUNNING again while the count is below the ceiling.
C25_ErrorExcursion ==
    [][/\ (state = "running" /\ FailureCounted) => state' = "error"
       /\ (state = "error" /\ error_count < max_errors /\ pc' = "loop") =>
             state' = "running"]_vars

\* What the engine does instead: ERROR is a member of TUIState that is never
\* assigned.
NeverInError == state # "error"

\* One iteration's handling of a pending resize, step by step: the loop
\* enters RESIZING from RUNNING; _handle_resize either replaces terminal_info
\* by a newly detected value and calls the resize callback with (old, new),
\* or fails before that; then the flag is cleared and the state is RUNNING
\* again, and only then the draw callback runs.  With allow_interrupt the
\* resize callback may instead end the loop by raising an interrupt.
ResizeHandled(allow_interrupt) ==
    /\ (/\ pc = "loop" /\ pc' # "loop" /\ resize_pending
        /\ LoopCondition(shutdown_requested, error_count)) =>
          state = "running" /\ state' = "resizing" /\ pc' = "resize"
    /\ (pc = "resize" /\ pc' # "resize") =>
          \/ /\ terminal_info' \in {term_size, DefaultTerminalInfo}
             /\ last_calls' = <<"resize">>
             /\ resize_call' = [old |-> terminal_info, new |-> terminal_info']
             /\ pc' = "resize_done"
          \/ /\ last_calls' = <<>>
             /\ pc' = "resize_done"
          \/ /\ allow_interrupt
             /\ last_calls' = <<"resize">>
             /\ loop_exit' = "interrupt"
             /\ pc' = "check"
    /\ (pc = "resize_done" /\ pc' # "resize_done") =>
          ~resize_pending' /\ state' = "running" /\ pc' = "draw"
    /\ (pc' = "draw" /\ pc # "draw") =>
          state' = "running" /\ (pc = "loop" => ~resize_pending)
    /\ "draw" \in Range(last_calls') => pc = "draw" /\ state = "running"

\* C26 as stated: every iteration that starts with a resize pending goes
\* RUNNING -> RESIZING -> RUNNING, replaces terminal_info, notifies the
\* resize callback with (old, new) and clears the flag before the draw
\* callback of the iteration runs; a failure while handling the resize still
\* clears the flag and returns to RUNNING.
C26_ResizeBeforeDrawAsStated == [][ResizeHandled(FALSE)]_vars

\* C26: the same, except that a resize callback raising an interrupt ends
\* the loop at once: terminal_info is replaced and the callback notified,
\* the flag is left set, the state is left RESIZING and no draw follows.
C26_ResizeBeforeDraw == [][ResizeHandled(TRUE)]_vars

\* C26 witness: a pending resize to another size has been handled and the
\* draw callback of the iteration is about to run.
C26_Witness ==
    /\ pc = "draw"
    /\ last_calls = <<>>
    /\ state = "running"
    /\ ~resize_pending
    /\ resize_call # NoResizeCall
    /\ resize_call.old # resize_call.new
    /\ terminal_info = resize_call.new

\* run() when every callback returns (or raises) and getch() times out:
\* each step of run() that can be taken is taken.  Signals arrive as they
\* please.
SpecLive ==
    /\ Init
    /\ [][Next]_vars
    /\ WF_vars(run_start)
    /\ WF_vars(run_loop)
    /\ WF_vars(handle_resize)
    /\ WF_vars(handle_resize_done)
    /\ WF_vars(safe_draw)
    /\ WF_vars(safe_input)
    /\ WF_vars(run_check)
    /\ WF_vars(run_finally)

\* C27: once SIGINT or SIGTERM has set shutdown_requested, the loop test is
\* left for the exit only -- no further iteration starts, so at most the
\* draw and the key dispatch of the iteration in progress still run -- and
\* run() eventually returns.
C27_ShutdownEndsRun ==
    /\ [][(shutdown_requested /\ pc = "loop" /\ pc' # "loop") => pc' = "check"]_vars
    /\ [][(shutdown_requested /\ pc' \in {"resize", "draw"}) =>
             pc \in {"resize", "resize_done", "draw"}]_vars
    /\ (shutdown_requested ~> pc = "returned")

\* C27 witness: run() has returned after the loop test found the shutdown
\* request.
C27_Witness ==
    /\ pc = "returned"
    /\ shutdown_requested
    /\ loop_exit = "shutdown"
    /\ state = "shutting_down"

C29_CountedFailuresSurfaced ==
    [][FailureCounted =>
         /\ "error" \in Range(last_calls')
         /\ error_count' = error_count + 1
         /\ error_count' < max_errors =>
               pc' = (IF pc = "draw" THEN "input" ELSE "loop")]_vars

\* The part that holds: a failure that reaches the error callback is counted
\* at least once.
SurfacedFailuresCounted ==
    [][(pc \in {"draw", "input"} /\ "error" \in Range(last_calls')) =>
          error_count' > error_count]_vars

(***************************************************************************)
(* The digest map of a re-scan                                             *)
(***************************************************************************)

\* C30: after every re-scan the digest map of the snapshot has an entry for
\* every file examined in that scan -- every discovered status document,
\* also one whose record was discarded as a duplicate or that could not be
\* parsed, and the decision-queue and ownership documents when present --
\* and no entry carried over from the previous map: its entries are the
\* digests of the files as they are now.
C30_DigestPerExaminedFile ==
    last_call.reason \notin {"none", "fresh"} =>
        /\ DOMAIN returned.file_hashes = last_call.parsed
        /\ \A p \in DOMAIN returned.file_hashes :
              returned.file_hashes[p] = calculate_file_hash(files, p)

\* The part that holds: the map is built anew, over examined files only.
DigestsAreNew ==
    last_call.reason \notin {"none", "fresh"} =>
        /\ DOMAIN returned.file_hashes \subseteq last_call.parsed
        /\ \A p \in DOMAIN returned.file_hashes :
              returned.file_hashes[p] = calculate_file_hash(files, p)

(***************************************************************************)
(* The status of the records of a published snapshot                       *)
(***************************************************************************)

\* The values named for AgentInfo.status.
AgentStatuses == {"active", "blocked", "completed", "idle"}

\* C31: every record of a published snapshot has a status among active,
\* blocked, completed and idle, whatever the status document it was parsed
\* from contains or omits.
C31_StatusInRange ==
    \A a \in DOMAIN returned.agents : returned.agents[a].status \in AgentStatuses

\* What holds instead: the status is one of the four or the default of
\* AgentInfo, "unknown".
StatusInRangeOrDefault ==
    \A a \in DOMAIN returned.agents :
        returned.agents[a].status \in AgentStatuses \cup {"unknown"}

(***************************************************************************)
(* The detail components and the keys                                      *)
(***************************************************************************)

\* The longest content handed to the free-text detail pane, and the most
\* files an agent shown in the task pane owns.
MaxDetailLines == 6
MaxFilesOwned == 2
DetailLines == {[i \in 1..n |-> "line"] : n \in 0..MaxDetailLines}
\* The agent handed to the task pane: <<>> for None, <<k>> for agent k,
\* which has no blockers and owns k files.
ShownAgents == {<<>>} \cup {<<k>> : k \in 0..MaxFilesOwned}

\* DetailsComponent.get_content_lines
details_content_lines(lines) ==
    IF lines = <<>> THEN <<"No details available">> ELSE lines

\* TaskDetailsComponent.get_content_lines: agent, status, blank, task, blank,
\* confidence, last update, blank, then "Files Owned:" and at most five
\* names (and one line for the rest).
task_content_lines(agent) ==
    IF agent = <<>>
    THEN <<"No agent selected">>
    ELSE [i \in 1..(8 + (IF agent[1] > 0
                         THEN 1 + Min(agent[1], 5) + (IF agent[1] > 5 THEN 1 ELSE 0)
                         ELSE 0)) |-> "line"]

\* DetailsComponent.set_content; ui_input holds the content lines the pane
\* now shows.
set_content(lines) ==
    /\ comp' = [comp EXCEPT !["details"].scroll_offset = 0]
    /\ ui_op' = "set_content"
    /\ ui_input' = details_content_lines(lines)
    /\ UNCHANGED <<agents, review_items, current_layout, focused_pane>>

\* TaskDetailsComponent.set_selected_agent
set_selected_agent(agent) ==
    /\ comp' = [comp EXCEPT !["tasks"].selected_agent = agent,
                            !["tasks"].scroll_offset = 0]
    /\ ui_op' = "set_selected_agent"
    /\ ui_input' = task_content_lines(agent)
    /\ UNCHANGED <<agents, review_items, current_layout, focused_pane>>

\* The UI after create_agent_manager_ui, a first set_agents and
\* set_review_items and update_layout for the terminal.
DetailInit ==
    /\ EngineIdle
    /\ AppIdle
    /\ DataIdle
    /\ \E shown \in Snapshots :
         /\ agents = shown.agents
         /\ review_items = SortedByPriority(shown.review_items)
    /\ \E size \in TermSizes :
         /\ current_layout = calculate_layout(size.width, size.height)
         /\ comp = LayoutApplied([p \in Panes |-> NewComponent(p)], current_layout)
    /\ focused_pane = "agents"
    /\ ui_op = "update_layout"
    /\ ui_input = <<>>
DetailNext ==
    \/ \E pane_type \in Panes :
          set_focus(pane_type) /\ UNCHANGED <<engineVars, appVars, dataVars>>
    \/ \E lines \in DetailLines :
          set_content(lines) /\ UNCHANGED <<engineVars, appVars, dataVars>>
    \/ \E agent \in ShownAgents :
          set_selected_agent(agent) /\ UNCHANGED <<engineVars, appVars, dataVars>>
    \/ \E key \in Keys : handle_key(key) /\ UNCHANGED <<engineVars, appVars, dataVars>>
SpecDetail == DetailInit /\ [][DetailNext]_vars

\* The keys that scroll, and the lines each moves by.
ScrollKeys == {"up", "down", "j", "k"}
ScrollDelta(key) == IF key \in {"up", "k"} THEN -1 ELSE 1

\* C32: with the task pane or the free-text detail pane focused and showing
\* the content it was last given, an up or down key (or k, j) changes the
\* scroll_offset of that pane by one line, clamped to
\* [0, max(0, content length - visible height)].
C32_DetailScrolls ==
    [][\A key \in ScrollKeys :
         (/\ focused_pane \in {"tasks", "details"}
          /\ ui_op = (IF focused_pane = "details"
                      THEN "set_content" ELSE "set_selected_agent")
          /\ handle_key(key)) =>
            comp'[focused_pane].scroll_offset =
                Max(0, Min(Max(0, Len(ui_input) - (comp[focused_pane].height - 2)),
                           comp[focused_pane].scroll_offset + ScrollDelta(key)))]_vars

\* What the detail panes do with a key: nothing.
DetailIgnoresKeys ==
    [][\A key \in Keys :
         (focused_pane \in {"tasks", "details"} /\ handle_key(key)) =>
            comp' = comp]_vars

(***************************************************************************)
(* parse_project_state statement by statement: the ProjectState objects    *)
(***************************************************************************)

\* Who calls parse_project_state: _refresh_data keeps the result in
\* current_state, the query methods (get_agent_by_id and the others) and
\* monitor_file_changes do not touch current_state.
Callers == {"_refresh_data", "get_agent_by_id"}

\* ProjectState(...): a new object, none that anything refers to.
new_project_state_mut(cached, held) ==
    IF cached # NoRef THEN cached ELSE CHOOSE s \in Slots : s \notin {cached, held}
new_project_state(cached, held) == CHOOSE s \in Slots : s \notin {cached, held}

\* The records of the status documents a scan keeps, before the merge.
HandoffAgents(fs, order) ==
    LET kept == KeptHandoffs(fs, order)
    IN  [a \in {extract_agent_from_filename[p] : p \in kept} |->
            parse_handoff_file(fs,
                CHOOSE p \in kept : extract_agent_from_filename[p] = a)]

\* The merge of the ownership table into the records.
MergeOwnership(records, owned) ==
    [a \in DOMAIN records \cup DOMAIN owned |->
        IF a \notin DOMAIN records
        THEN [agent_id |-> a, handoff_file |-> "None", doc |-> 0,
              status |-> "idle", current_task |-> "No recent activity",
              files_owned |-> owned[a]]
        ELSE IF a \in DOMAIN owned
        THEN [records[a] EXCEPT !.files_owned = owned[a]]
        ELSE records[a]]

\* The ProjectState self.cached_data refers to.
CachedSnapshot == IF cached_ref = NoRef THEN NoSnapshot ELSE heap[cached_ref]

\* The call starts: a cache hit returns self.cached_data itself, otherwise a
\* new ProjectState is created, empty, with last_refresh = now.
parse_begin(force_refresh, caller) ==
    /\ scan_pc = "idle"
    /\ IF RefreshReason(force_refresh, CachedSnapshot, files, now) = "fresh"
       THEN /\ held_ref' = IF caller = "_refresh_data" THEN cached_ref ELSE held_ref
            /\ scan_caller' = caller
            /\ UNCHANGED <<heap, cached_ref, building_ref, scan_pc>>
       ELSE /\ building_ref' = new_project_state(cached_ref, held_ref)
            /\ heap' = [heap EXCEPT ![building_ref'] =
                            [NoSnapshot EXCEPT !.last_refresh = now]]
            /\ scan_pc' = "handoffs"
            /\ scan_caller' = caller
            /\ UNCHANGED <<cached_ref, held_ref>>
    /\ UNCHANGED <<engineVars, appVars, uiVars, reviewVars, refreshVars, handoffVars>>

\* The loop over the status documents.
parse_handoffs ==
    /\ scan_pc = "handoffs"
    /\ LET handoff_files == discover_handoff_files(files, mtime_order)
       IN  heap' = [heap EXCEPT ![building_ref] =
             [@ EXCEPT !.agents = HandoffAgents(files, handoff_files),
                       !.file_hashes = [p \in KeptHandoffs(files, handoff_files) |->
                                            calculate_file_hash(files, p)]]]
    /\ scan_pc' = "review"
    /\ UNCHANGED <<cached_ref, held_ref, building_ref, scan_caller>>
    /\ UNCHANGED <<engineVars, appVars, uiVars, reviewVars, refreshVars, handoffVars>>

\* The decision queue, when the file exists.
parse_review ==
    /\ scan_pc = "review"
    /\ heap' = IF files[review_file].exists
               THEN [heap EXCEPT ![building_ref] =
                  [@ EXCEPT !.review_items =
                        IF files[review_file].readable
                        THEN parse_review_file(ReviewDocOf(files[review_file].content), 0)
                        ELSE <<>>,
                     !.file_hashes = [p \in DOMAIN @ \cup {review_file} |->
                        IF p = review_file
                        THEN calculate_file_hash(files, p) ELSE @[p]]]]
               ELSE heap
    /\ scan_pc' = "sprint"
    /\ UNCHANGED <<cached_ref, held_ref, building_ref, scan_caller>>
    /\ UNCHANGED <<engineVars, appVars, uiVars, reviewVars, refreshVars, handoffVars>>

\* The sprint document, when the file exists, and the merge of its ownership
\* table into the records of the object being built.
parse_sprint ==
    /\ scan_pc = "sprint"
    /\ heap' = IF files[sprint_file].exists
               THEN LET owned == IF files[sprint_file].readable
                                 THEN agent_files(files[sprint_file].content)
                                 ELSE EmptyMap
                    IN [heap EXCEPT ![building_ref] =
                         [@ EXCEPT !.sprint_info = owned,
                            !.file_hashes = [p \in DOMAIN @ \cup {sprint_file} |->
                               IF p = sprint_file
                               THEN calculate_file_hash(files, p) ELSE @[p]],
                            !.agents = MergeOwnership(@, owned)]]
               ELSE heap
    /\ scan_pc' = "publish"
    /\ UNCHANGED <<cached_ref, held_ref, building_ref, scan_caller>>
    /\ UNCHANGED <<engineVars, appVars, uiVars, reviewVars, refreshVars, handoffVars>>

\* self.cached_data = project_state; return project_state
publish_snapshot ==
    /\ scan_pc = "publish"
    /\ cached_ref' = building_ref
    /\ held_ref' = IF scan_caller = "_refresh_data" THEN building_ref ELSE held_ref
    /\ building_ref' = NoRef
    /\ scan_pc' = "idle"
    /\ heap' = [s \in Slots |->
                  IF s \in {cached_ref', held_ref'} THEN heap[s] ELSE NoSnapshot]
    /\ UNCHANGED scan_caller
    /\ UNCHANGED <<engineVars, appVars, uiVars, reviewVars, refreshVars, handoffVars>>

\* The call is left by an exception none of its except clauses catches
\* (KeyboardInterrupt, as monitor_file_changes expects): the object being
\* built is dropped.
parse_interrupted ==
    /\ scan_pc # "idle"
    /\ heap' = [heap EXCEPT ![building_ref] = NoSnapshot]
    /\ building_ref' = NoRef
    /\ scan_pc' = "idle"
    /\ UNCHANGED <<cached_ref, held_ref, scan_caller>>
    /\ UNCHANGED <<engineVars, appVars, uiVars, reviewVars, refreshVars, handoffVars>>

\* The files the environment of SpecSnapshot touches: a status document
\* that is rewritten, and the sprint document, written once.
SnapshotPaths == {"handoff-1_1.md", sprint_file}

SnapshotInit == EngineIdle /\ AppIdle /\ create_agent_manager_ui /\ DataIdle
SnapshotNext ==
    \/ \E force_refresh \in BOOLEAN, caller \in Callers :
          parse_begin(force_refresh, caller)
    \/ parse_handoffs
    \/ parse_review
    \/ parse_sprint
    \/ publish_snapshot
    \/ parse_interrupted
    \/ \E c \in 1..MaxContent : write_file("handoff-1_1.md", c)
    \/ write_file(sprint_file, 1)
    \/ \E p \in SnapshotPaths : delete_file(p)
SpecSnapshot == SnapshotInit /\ [][SnapshotNext]_vars

\* C33: a ProjectState that stays cached or held by a consumer is never
\* modified; self.cached_data changes only by the one assignment at the end
\* of a complete scan, to the object that scan built; a scan that is left
\* midway leaves self.cached_data referring to the same object.
C33_SnapshotImmutable ==
    [][/\ \A s \in ({cached_ref, held_ref} \cap {cached_ref', held_ref'}) \ {NoRef} :
             heap'[s] = heap[s]
       /\ cached_ref' # cached_ref =>
             (scan_pc = "publish" /\ cached_ref' = building_ref)
       /\ (scan_pc # "idle" /\ scan_pc' = "idle" /\ cached_ref' # building_ref) =>
             (cached_ref' = cached_ref /\ held_ref' = held_ref)]_vars

\* C33 witness: a consumer holds the snapshot it was given while a later
\* scan has published another one with other records.
C33_Witness ==
    /\ scan_pc = "idle"
    /\ held_ref # NoRef
    /\ cached_ref \notin {NoRef, held_ref}
    /\ heap[held_ref].agents # EmptyMap
    /\ heap[cached_ref].agents # heap[held_ref].agents

(***************************************************************************)
(* Resize signals and the pending flag                                     *)
(***************************************************************************)

\* C34: no resize signal is lost: the pending flag is cleared only by the
\* step that follows a recomputation of terminal_info with no signal
\* delivered in between (a delivered signal empties last_calls, the
\* recomputation leaves <<"resize">> in it), so every signal is followed by
\* a recomputation.
C34_NoResizeLost ==
    [][(resize_pending /\ ~resize_pending') => last_calls = <<"resize">>]_vars

\* What holds instead: the flag is cleared only at the end of
\* _handle_resize, whatever happened since that call began.
FlagClearedByHandler ==
    [][(resize_pending /\ ~resize_pending') => pc = "resize_done"]_vars

\* A signal that was lost: the loop waits for input with no resize pending
\* while the size it holds is neither the terminal's nor the default.
ResizeLost ==
    /\ pc = "input"
    /\ ~resize_pending
    /\ terminal_info \notin {term_size, DefaultTerminalInfo}

(***************************************************************************)
(* The geometry of the components after update_layout                      *)
(***************************************************************************)

\* The region a component draws into.
Region(p) ==
    [y |-> comp[p].y, x |-> comp[p].x, height |-> comp[p].height, width |-> comp[p].width]

\* C35: after update_layout for a terminal of at least 20 columns and 5 rows
\* the geometry of every component is its pane rectangle of the layout, the
\* regions of the components do not overlap pairwise and lie inside the
\* terminal.
C35_GeometryIsLayout ==
    (/\ current_layout # NoLayout
     /\ current_layout.total_width >= 20
     /\ current_layout.total_height >= 5) =>
        /\ \A p \in Panes : Region(p) = Rect(p)
        /\ \A p, q \in Panes : p # q => ~Overlap(Region(p), Region(q))
        /\ \A p \in Panes :
             /\ Region(p).x >= 0 /\ Region(p).y >= 0
             /\ Region(p).x + Region(p).width <= current_layout.total_width
             /\ Region(p).y + Region(p).height <= current_layout.total_height

\* What holds instead: position as in the layout, height and width those of
\* the layout raised to the component's minimum.
GeometryIsClampedLayout ==
    current_layout # NoLayout =>
        \A p \in Panes :
            /\ Region(p).y = Rect(p).y /\ Region(p).x = Rect(p).x
            /\ Region(p).height = Max(Rect(p).height, min_height)
            /\ Region(p).width = Max(Rect(p).width, MinWidth[p])

(***************************************************************************)
(* AgentManager (agent-manager.py): the review selection                   *)
(***************************************************************************)

\* The longest decision queue the file holds.
MaxLegacyQueue == 2
\* The queues the file can hold, in the order load_review_queue appends the
\* entries (critical, high, medium: the order a stable sort by priority
\* keeps).
LegacyQueues ==
    UNION {[1..n -> AgentIds] : n \in 0..MaxLegacyQueue}

\* The keys handle_input tells apart ('q' ends the loop; 'r' is taken by the
\* global refresh before the review pane sees it; up, down, k and j in the
\* agents pane move selected_agent, which nothing here reads).
LegacyKeys == {"r", "tab", "up", "k", "down", "j", "a", "b", "d", "h"}
LegacyDecision(key) ==
    CASE key = "a" -> "approved" [] key = "b" -> "blocked" [] OTHER -> "deferred"
\* What approve_agent_request meets in SpecLegacy.
LegacyOutcomes == {"exit_0", "write_fails"}

\* sorted_items[i] in Python: a negative index counts from the end.
PyIndex(items, i) == IF i >= 0 THEN items[i + 1] ELSE items[Len(items) + i + 1]

\* The entry draw_review_pane paints in reverse video: entry selected_review
\* of the sorted list when the review pane is active, none otherwise.
\* <<>> stands for none.
Highlighted(m) ==
    IF /\ m.current_pane = 2
       /\ 0 <= m.selected_review
       /\ m.selected_review < Len(m.review_items)
    THEN <<m.review_items[m.selected_review + 1]>>
    ELSE <<>>

\* The environment rewrites human-review.md.
queue_written(q) ==
    /\ q # legacy_queue
    /\ legacy_queue' = q
    /\ manager' = [manager EXCEPT !.acted = <<>>]
    /\ UNCHANGED <<decisions, last_decision>>
    /\ UNCHANGED <<engineVars, uiVars, dataVars, screenVars,
                   status_message, last_action, requested, status_line>>

\* refresh_data: the first call of run(), the 'r' key and the refresh of
\* every minute.  load_review_queue replaces review_items; selected_review
\* is not touched.
refresh_data_legacy ==
    /\ manager' = [manager EXCEPT !.review_items = legacy_queue, !.acted = <<>>]
    /\ UNCHANGED <<decisions, last_decision, legacy_queue>>
    /\ UNCHANGED <<engineVars, uiVars, dataVars, screenVars,
                   status_message, last_action, requested, status_line>>

\* approve_current_item, reached by 'a', 'b' and 'd' in the review pane:
\* nothing on an empty list or with selected_review >= len; otherwise
\* approve_agent_request for sorted_items[selected_review], and when that
\* returns True the queue is loaded again (the script, when it ran, may have
\* removed the entries of that agent) and a selection past the end is moved
\* to the last entry.
approve_current_item(decision, outcome, removed) ==
    IF manager.review_items = <<>> \/ manager.selected_review >= Len(manager.review_items)
    THEN /\ manager' = [manager EXCEPT !.acted = <<>>]
         /\ UNCHANGED <<decisions, last_decision, legacy_queue>>
    ELSE LET agent_id == PyIndex(manager.review_items, manager.selected_review)
             ok == outcome # "write_fails"
         IN  /\ decisions' = (IF ok THEN write_decision(decisions, agent_id, decision)
                              ELSE decisions)
             /\ last_decision' = [agent_id |-> agent_id, decision |-> decision,
                                  command |-> outcome, returns |-> ok]
             /\ legacy_queue' = (IF ok /\ removed
                                 THEN SelectSeq(legacy_queue, LAMBDA a : a # agent_id)
                                 ELSE legacy_queue)
             /\ manager' =
                  IF ok
                  THEN [manager EXCEPT
                          !.review_items = legacy_queue',
                          !.selected_review =
                              IF @ >= Len(legacy_queue')
                              THEN Max(0, Len(legacy_queue') - 1) ELSE @,
                          !.acted = <<agent_id>>]
                  ELSE [manager EXCEPT !.acted = <<agent_id>>]

\* AgentManager.handle_input
handle_input_legacy(key, outcome, removed) ==
    /\ CASE key = "r" ->
              /\ manager' = [manager EXCEPT !.review_items = legacy_queue, !.acted = <<>>]
              /\ UNCHANGED <<decisions, last_decision, legacy_queue>>
         [] key = "tab" ->
              /\ manager' = [manager EXCEPT !.current_pane = (@ + 1) % 3, !.acted = <<>>]
              /\ UNCHANGED <<decisions, last_decision, legacy_queue>>
         [] key \in {"up", "k"} /\ manager.current_pane = 2 ->
              /\ manager' = [manager EXCEPT !.selected_review = Max(0, @ - 1),
                                            !.acted = <<>>]
              /\ UNCHANGED <<decisions, last_decision, legacy_queue>>
         [] key \in {"down", "j"} /\ manager.current_pane = 2 ->
              /\ manager' = [manager EXCEPT
                    !.selected_review = Min(Len(manager.review_items) - 1, @ + 1),
                    !.acted = <<>>]
              /\ UNCHANGED <<decisions, last_decision, legacy_queue>>
         [] key \in {"a", "b", "d"} /\ manager.current_pane = 2 ->
              approve_current_item(LegacyDecision(key), outcome, removed)
         [] OTHER ->
              /\ manager' = [manager EXCEPT !.acted = <<>>]
              /\ UNCHANGED <<decisions, last_decision, legacy_queue>>
    /\ UNCHANGED <<engineVars, uiVars, dataVars, screenVars,
                   status_message, last_action, requested, status_line>>

LegacyInit == EngineIdle /\ AppIdle /\ DataIdle /\ create_agent_manager_ui
LegacyNext ==
    \/ \E q \in LegacyQueues : queue_written(q)
    \/ refresh_data_legacy
    \/ \E key \in LegacyKeys, outcome \in LegacyOutcomes, removed \in BOOLEAN :
          handle_input_legacy(key, outcome, removed)
SpecLegacy == LegacyInit /\ [][LegacyNext]_vars

\* C36: after every key and every reload of the queue, selected_review is
\* at least 0 and below max(1, number of review items), and an action key
\* acts on the entry that was highlighted when it was pressed.
C36_ReviewSelection ==
    [][/\ 0 <= manager'.selected_review
       /\ manager'.selected_review < Max(1, Len(manager'.review_items))
       /\ manager'.acted # <<>> => manager'.acted = Highlighted(manager)]_vars

\* What holds instead: selected_review is never below -1, and an action key
\* acts on the highlighted entry whenever selected_review is not negative.
ReviewSelectionFloor ==
    [][/\ -1 <= manager'.selected_review
       /\ (manager'.acted # <<>> /\ manager.selected_review >= 0) =>
             manager'.acted = Highlighted(manager)]_vars

\* An action key has acted on an entry while none was highlighted.
ActedOnUnhighlighted ==
    /\ manager.acted # <<>>
    /\ manager.selected_review = -1

(***************************************************************************)
(* Deleted files and the cache                                             *)
(***************************************************************************)

\* The tracked files that are no longer there.
DeletedFiles == {p \in DOMAIN cached_data.file_hashes : ~files[p].exists}

\* What a snapshot holds that came from file p.
HoldsDataOf(snapshot, p) ==
    \/ p \in DOMAIN snapshot.file_hashes
    \/ \E a \in DOMAIN snapshot.agents : snapshot.agents[a].handoff_file = p
    \/ p = review_file /\ snapshot.review_items # <<>>

\* C37: when a tracked file was deleted after the snapshot was cached and the
\* snapshot is at most 30 seconds old, the next call without force re-scans
\* and the snapshot it returns holds nothing that came from the deleted file.
C37_DeletionInvalidates ==
    [][(/\ last_call'.reason # "none" /\ ~last_call'.force
        /\ cached_data # NoSnapshot
        /\ now - cached_data.last_refresh <= 30
        /\ DeletedFiles # {})
       => (/\ last_call'.reason # "fresh"
           /\ \A p \in DeletedFiles : ~HoldsDataOf(returned', p))]_vars

\* What holds instead: a deleted file is not looked at; when no tracked file
\* that still exists has another digest, the call is a cache hit and returns
\* the cached snapshot, the data of the deleted file included.
DeletionKeepsCache ==
    [][(/\ last_call'.reason # "none" /\ ~last_call'.force
        /\ cached_data # NoSnapshot
        /\ now - cached_data.last_refresh <= 30
        /\ \A p \in DOMAIN cached_data.file_hashes :
              files[p].exists =>
                 calculate_file_hash(files, p) = cached_data.file_hashes[p])
       => (last_call'.reason = "fresh" /\ returned' = cached_data)]_vars

(***************************************************************************)
(* The action command succeeds                                             *)
(***************************************************************************)

\* The lists shown are those of a snapshot the parser returned.
ShowsSnapshot(as, items) ==
    \E shown \in Snapshots :
        as = shown.agents /\ items = SortedByPriority(shown.review_items)

\* C38: when the action command of a key exits with code 0, the status
\* message left by _handle_input, and painted by the next draw, is the one
\* that reports the action completed for the agent of the selected item, and
\* the lists shown are those of a forced re-scan.
C38_ActionSuccessShown ==
    [][/\ (pc = "input" /\ requested'.outcome = "ok") =>
             /\ status_message' = "action_completed"
             /\ ShowsSnapshot(agents', review_items')
       /\ (pc = "draw" /\ requested.outcome = "ok") =>
             status_line' = "action_completed"]_vars

\* What holds instead: the forced re-scan takes place and leaves its own
\* message, which is the one painted; the action is named by last_action.
ActionSuccessRefreshed ==
    [][/\ (pc = "input" /\ requested'.outcome = "ok") =>
             /\ status_message' = "data_refreshed"
             /\ last_action' = requested'.action
             /\ ShowsSnapshot(agents', review_items')
       /\ (pc = "draw" /\ requested.outcome = "ok") =>
             status_line' = "data_refreshed"]_vars

(***************************************************************************)
(* The task pane and the agent list's selection                            *)
(***************************************************************************)

\* C39: after every input dispatch and every data refresh the agent the
\* task pane shows is the entry selected in the agent list, none when the
\* list is empty.
C39_TaskPaneFollowsSelection ==
    comp["tasks"].selected_agent = get_selected_item(comp["agents"], agents)

\* What holds instead: the task pane is set by a data refresh and by the
\* select key (Enter, Space) of the agent list; any other key leaves it as
\* it is, the keys that move the selection included.
TaskPaneSetBySelectAndRefresh ==
    [][\A key \in Keys :
          handle_input(key) =>
             \/ comp'["tasks"].selected_agent = comp["tasks"].selected_agent
             \/ /\ comp'["tasks"].selected_agent
                      = get_selected_item(comp'["agents"], agents')
                /\ \/ key = "r"
                   \/ requested'.outcome = "ok"
                   \/ handle_key_token(focused_pane, key) = "select_agent"]_vars

====
